---- MODULE Spec2Model ----
(***************************************************************************)
(* A state-machine model of the RAG client's session and consistency      *)
(* layer: the persisted chat store, the chat page's query flow, the query  *)
(* cache with its invalidation edges, the add-source dialog and the       *)
(* citation display tier.                                                  *)
(***************************************************************************)
EXTENDS Integers, Sequences, FiniteSets, TLC

VARIABLES
    \* chat store (stores/chatStore) and the durable storage behind it
    messages,       \* ChatState.messages
    filters,        \* ChatState.filters
    isProcessing,   \* ChatState.isProcessing
    storage,        \* localStorage: key -> stored value
    nextId,         \* the next value crypto.randomUUID() hands out
    \* chat page
    inflight,       \* handleSubmit calls suspended at await ragQuery.mutateAsync
    mounted,        \* a ChatPage instance is mounted
    epoch,          \* which mutation observer (useRagQuery instance) is current
    ragStatus,      \* status of the current observer's mutation
    \* query cache (QueryClient) and what it mirrors
    view,           \* the page that is mounted
    cache,          \* query key -> entry
    superseded,     \* keys whose cached data the backend has since replaced
    pendingMut,     \* mutations whose gateway call is in flight
    lastMutation,   \* the mutation that started or settled last, with its status
    mutCount,       \* mutations started so far
    navCount,       \* page changes so far
    \* add-source dialog of one project page
    srcBackend,     \* document ids of the project's sources as the backend holds them
    srcCached,      \* document ids of project.sources in the cached project
    srcFetching,    \* a fetch of the project entry is in flight
    selectedDoc,    \* AddSourceModal selectedDoc
    modalOpen,      \* addSourceModalOpen
    addPending,     \* the attach request in flight
    addStatus,      \* status of the addSource mutation
    \* one citation card
    score,          \* Source.relevance_score, in units of 1/ScoreDenominator
    variant,        \* the Badge variant the card shows
    docId,          \* Source.document_id
    page,           \* Source.page: a number, or null
    pdfUrl,         \* the address the card opens, in parts
    \* gateway calls of the tracked operations, in time
    gw,             \* operation -> its state, calls made, time in flight, failure, data
    backendHealth,  \* the status GET /health answers with
    \* upload dialog of the documents page
    uploadModalOpen, \* DocumentsPage uploadModalOpen
    \* one project page (ProjectDetailPage) and the project the backend holds
    backendProject, \* the backend's project P1: status, sources, sections
    sent,           \* requests of the page's handlers in flight
    sentCount,      \* requests sent so far
    shownSections,  \* the sections as the page lists them
    downloads,      \* the files handed to the browser by exports
    editingSectionId, \* ProjectDetailPage editingSectionId
    sectionContent, \* ProjectDetailPage sectionContent
    \* the application shell (App)
    darkMode, \* App darkMode
    \* summary dialog of the documents page
    summaryTarget, \* DocumentsPage summaryTarget: the document named in the dialog, or null
    summaryContent, \* DocumentsPage summaryContent
    summaryError, \* DocumentsPage summaryError is set
    summaryCalls, \* generateSummary calls in flight
    summaryCount, \* generateSummary calls made so far
    \* document list of the documents page and the backend's corpus
    docPage, \* DocumentsPage page
    docSearch, \* DocumentsPage search
    statusFilter, \* DocumentsPage statusFilter
    docsTotal, \* data.total of useDocuments for the current parameters; none while it loads
    corpus, \* the backend's documents: how many there are of each status and title
    deleteCount, \* documents deleted so far
    \* file list of the upload dialog (UploadModal)
    files, \* UploadModal files: the entries listed, each a file and its status
    run, \* the uploadFiles call in progress: the list it was started with and its index i
    uploaded, \* the files sent to the backend, in order, each with its outcome
    removed, \* the files taken off the list before any upload of them was sent
    dropCount \* files dropped so far

storeVars  == <<messages, filters, isProcessing, storage, nextId>>
pageVars   == <<inflight, mounted, epoch, ragStatus>>
chatVars   == <<storeVars, pageVars>>
cacheVars  == <<view, cache, superseded, pendingMut, lastMutation, mutCount, navCount>>
dialogVars == <<srcBackend, srcCached, srcFetching, selectedDoc, modalOpen, addPending, addStatus>>
cardVars   == <<score, variant, docId, page, pdfUrl>>
gatewayVars == <<gw, backendHealth>>
uploadVars == <<uploadModalOpen>>
projectVars == <<backendProject, sent, sentCount, shownSections, downloads,
                 editingSectionId, sectionContent>>
appVars == <<darkMode>>
summaryVars == <<summaryTarget, summaryContent, summaryError, summaryCalls, summaryCount>>
listVars == <<docPage, docSearch, statusFilter, docsTotal, corpus, deleteCount>>
filesVars == <<files, run, uploaded, removed, dropCount>>
vars       == <<chatVars, cacheVars, dialogVars, cardVars, gatewayVars, uploadVars, projectVars, appVars, summaryVars, listVars, filesVars>>
----------------------------------------------------------------------------
(* Bounds of the model *)

\* messages appended in one run of the store specification
MaxMsgs == 52
\* appends at list positions below this draw any payload; later ones repeat one
VariedLen == 1
\* messages appended in one run of the chat page specification
MaxChatMsgs == 6
\* times the chat page is mounted in one run
MaxMounts == 3
\* mutations started in one run of the cache specification
MaxMutations == 1
MaxNavigations == 2
\* mutations in flight together
MaxPending == 1
\* restarts in one run of the restart specification
MaxRestarts == 1
\* relevance scores range over 0, 1/ScoreDenominator, ..., 1
ScoreDenominator == 1000

(* Program constants *)

\* state.messages.slice(-50)
PersistWindow == 50

StorageKey == "rag-chat-storage"

----------------------------------------------------------------------------
(* Optional values: <<>> is undefined, <<v>> is the value v *)

Undefined == <<>>
Some(v) == <<v>>

Min(a, b) == IF a <= b THEN a ELSE b
Max(a, b) == IF a >= b THEN a ELSE b

----------------------------------------------------------------------------
(* Chat store *)

FilterFields == {"yearMin", "yearMax", "authors"}

\* Partial<ChatFilters>: any subset of the fields, each a value or undefined
PartialFilters ==
    { [k \in D |-> CASE k = "yearMin" -> a [] k = "yearMax" -> b [] k = "authors" -> c] :
        a \in {Undefined, Some(2020)}, b \in {Undefined, Some(2024)},
        c \in {Undefined, Some(<<"X">>)}, D \in SUBSET FilterFields }

EmptyFilters == [k \in {} |-> Undefined]

\* { ...a, ...b }: own keys of b override those of a, undefined included
Spread(a, b) ==
    [k \in (DOMAIN a) \cup (DOMAIN b) |-> IF k \in DOMAIN b THEN b[k] ELSE a[k]]

\* Array.prototype.slice(start) with a negative or non-negative start
Slice(s, start) ==
    LET len  == Len(s)
        from == IF start < 0 THEN Max(len + start, 0) ELSE Min(start, len)
    IN  SubSeq(s, from + 1, len)

\* new Date(): the reading of the clock, which here ticks once per message
DateOf(t) == [type |-> "Date", ms |-> t]

\* JSON.stringify of a Date gives its ISO string
ToJSONDate(d) == [type |-> "string", ms |-> d.ms]

\* JSON.stringify of a Message: the timestamp becomes a string
ToJSONMessage(m) == [m EXCEPT !.timestamp = ToJSONDate(m.timestamp)]

\* JSON.stringify of an object drops the keys whose value is undefined
ToJSONFilters(f) ==
    LET D == {k \in DOMAIN f : f[k] # Undefined}
    IN  [k \in D |-> f[k]]

PartializeSliceMutant(state) ==
    [messages |-> Slice(state.messages, PersistWindow),
     filters  |-> state.filters]

\* persist option partialize
Partialize(state) ==
    [messages |-> Slice(state.messages, 0 - PersistWindow),
     filters  |-> state.filters]

\* persist middleware setItem: storage[name] := JSON.stringify({state, version})
SetItem(store, state) ==
    LET part == Partialize(state)
    IN  (StorageKey :> [state   |-> [messages |-> [i \in 1..Len(part.messages) |->
                                                     ToJSONMessage(part.messages[i])],
                                     filters  |-> ToJSONFilters(part.filters)],
                        version |-> 0]) @@ store

\* zustand set() under persist: merge the patch, then write the record
Set(msgs, flt, proc) ==
    /\ messages' = msgs
    /\ filters' = flt
    /\ isProcessing' = proc
    /\ storage' = SetItem(storage, [messages |-> msgs, filters |-> flt])

\* Omit<Message, 'id' | 'timestamp'> as the chat page builds it
UserPayload(q) ==
    [role |-> "user", content |-> q, sources |-> Undefined, processingTime |-> Undefined]

AddMessagePrependMutant(message) ==
    /\ Set(<<message @@ [id |-> nextId, timestamp |-> DateOf(nextId)]>> \o messages,
           filters, isProcessing)
    /\ nextId' = nextId + 1

AddMessageCapMutant(message) ==
    /\ Set(Slice(Append(messages, message @@ [id |-> nextId, timestamp |-> DateOf(nextId)]),
                 0 - PersistWindow),
           filters, isProcessing)
    /\ nextId' = nextId + 1

addMessage(message) ==
    /\ Set(Append(messages, message @@ [id |-> nextId, timestamp |-> DateOf(nextId)]),
           filters, isProcessing)
    /\ nextId' = nextId + 1

setProcessing(p) ==
    /\ Set(messages, filters, p)
    /\ UNCHANGED nextId

SetFiltersReplaceMutant(p) ==
    /\ Set(messages, p, isProcessing)
    /\ UNCHANGED nextId

setFilters(p) ==
    /\ Set(messages, Spread(filters, p), isProcessing)
    /\ UNCHANGED nextId

clearFilters ==
    /\ Set(messages, EmptyFilters, isProcessing)
    /\ UNCHANGED nextId

clearMessages ==
    /\ Set(<<>>, filters, isProcessing)
    /\ UNCHANGED nextId

----------------------------------------------------------------------------
(* Query cache: keys, views and the state at start *)

Projects == {"P1", "P2"}

\* queryKey arrays of the useQuery hooks
DocumentsKey(params) == <<"documents", params>>
HealthKey == <<"health">>
StatsKey == <<"stats">>
ProjectsKey(status) == <<"projects", status>>
ProjectKey(projectId) == <<"project", projectId>>

\* params objects the pages pass: the documents page and the add-source dialog
DocumentsParams == {"page1-limit10", "limit100-indexed"}
\* useProjects(status): no filter, or one status
ProjectsStatuses == {"undefined", "draft"}

Keys ==
    {DocumentsKey(x) : x \in DocumentsParams}
        \cup {HealthKey, StatsKey}
        \cup {ProjectsKey(x) : x \in ProjectsStatuses}
        \cup {ProjectKey(x) : x \in Projects}

\* the backend view a query key reads
BackendView(key) == IF key[1] = "project" THEN key ELSE <<key[1]>>

BackendViews == {BackendView(k) : k \in Keys}

\* pages, with the parameter that selects their query key
Views ==
    {<<"chat">>, <<"documents">>, <<"indexation">>, <<"dashboard">>}
        \cup {<<"projects", x>> : x \in ProjectsStatuses}
        \cup {<<"project", x>> : x \in Projects}

\* an entry before its first fetch returns
NewEntry == [data |-> Undefined, isInvalidated |-> FALSE, aged |-> TRUE, fetching |-> TRUE]

\* the Header mounts with the application and reads health
InitCacheVars ==
    /\ view = <<"chat">>
    /\ cache = (HealthKey :> NewEntry)
    /\ superseded = {}
    /\ pendingMut = {}
    /\ lastMutation = [kind |-> "-", project |-> "-", status |-> "idle"]
    /\ mutCount = 0
    /\ navCount = 0

InitDialogVars ==
    /\ srcBackend = {}
    /\ srcCached = {}
    /\ srcFetching = FALSE
    /\ selectedDoc = Undefined
    /\ modalOpen = FALSE
    /\ addPending = Undefined
    /\ addStatus = "idle"

InitCardVars ==
    /\ score = 0
    /\ variant = "none"
    /\ docId = "d1"
    /\ page = Undefined
    /\ pdfUrl = <<>>

\* the upload dialog is closed when the documents page mounts
InitUploadVars == uploadModalOpen = FALSE

\* the shell in light mode
InitAppVars == darkMode = FALSE

\* documents of one status whose title does or does not hold the searched text
DocClasses == [status : {"indexed", "pending"}, titled : BOOLEAN]

\* the documents page on its first page, and 22 documents in the corpus
InitListVars ==
    /\ docPage = 1
    /\ docSearch = ""
    /\ statusFilter = ""
    /\ docsTotal = Undefined
    /\ corpus = [c \in DocClasses |->
                    CASE c.status = "indexed" /\ c.titled   -> 11
                      [] c.status = "indexed" /\ ~c.titled  -> 1
                      [] c.status = "pending" /\ c.titled   -> 0
                      [] OTHER                              -> 10]
    /\ deleteCount = 0

\* the upload dialog lists no file
InitFilesVars ==
    /\ files = <<>>
    /\ run = Undefined
    /\ uploaded = <<>>
    /\ removed = {}
    /\ dropCount = 0

\* the summary dialog is closed
InitSummaryVars ==
    /\ summaryTarget = Undefined
    /\ summaryContent = Undefined
    /\ summaryError = FALSE
    /\ summaryCalls = {}
    /\ summaryCount = 0

\* a project just created, its page just mounted
InitProjectVars ==
    /\ backendProject = [status |-> "draft", sources |-> {}, sections |-> {}]
    /\ sent = {}
    /\ sentCount = 0
    /\ shownSections = Undefined
    /\ downloads = <<>>
    /\ editingSectionId = Undefined
    /\ sectionContent = ""

\* the tracked operations followed in time: the chat query, a mutation, two reads
Operations == {"query", "deleteDocument", "documents", "health"}

\* an operation that has not been invoked
IdleOperation ==
    [status |-> "idle", failureCount |-> 0, elapsed |-> 0, failure |-> "-",
     data |-> Undefined]

\* an operation starts: its first gateway call leaves
Start(r, keepData) ==
    [status |-> "pending", failureCount |-> 0, elapsed |-> 0, failure |-> "-",
     data |-> IF keepData THEN r.data ELSE Undefined]

\* the Header is mounted with the application: useHealth fetches at once
InitGatewayVars ==
    /\ gw = [op \in Operations |->
                IF op = "health" THEN Start(IdleOperation, TRUE) ELSE IdleOperation]
    /\ backendHealth = "healthy"

----------------------------------------------------------------------------
(* The store driven directly: any caller, any order of the actions *)

\* QueryResponse.sources as the backend may list them
Citation(doc, pg, rel) ==
    [document_id |-> doc, page |-> pg, relevance_score |-> rel]

SourceLists ==
    { <<>>,
      <<Citation("d1", Undefined, 550), Citation("d2", Some(3), 850)>> }

Questions == {"q1", "q2"}

\* the backend's answer text to a question
AnswerTo(q) == IF q = "q1" THEN "a1" ELSE "a2"

\* POST query -> {answer, sources, processing_time_ms}
Responses(q) ==
    { [answer |-> AnswerTo(q), sources |-> s, processing_time_ms |-> 1200] :
        s \in SourceLists }

AssistantPayload(response) ==
    [role |-> "assistant", content |-> response.answer,
     sources |-> Some(response.sources),
     processingTime |-> Some(response.processing_time_ms)]

ErrorContent == "Desole, une erreur s'est produite"

ErrorPayload ==
    [role |-> "assistant", content |-> ErrorContent,
     sources |-> Undefined, processingTime |-> Undefined]

StorePayloads ==
    {UserPayload("q1"), ErrorPayload}
        \cup {AssistantPayload(r) : r \in {x \in Responses("q1") : x.sources # <<>>}}

PayloadsAt(pos) == IF pos < VariedLen THEN StorePayloads ELSE {UserPayload("q1")}

InitStoreVars ==
    /\ messages = <<>>
    /\ filters = EmptyFilters
    /\ isProcessing = FALSE
    /\ nextId = 1
    /\ storage = SetItem([k \in {} |-> 0], [messages |-> <<>>, filters |-> EmptyFilters])

InitPageVars ==
    /\ inflight = {}
    /\ mounted = TRUE
    /\ epoch = 1
    /\ ragStatus = "idle"

StoreAddMessage ==
    /\ nextId <= MaxMsgs
    /\ \E p \in PayloadsAt(Len(messages)) : addMessage(p)
    /\ UNCHANGED <<pageVars, cacheVars, dialogVars, cardVars, gatewayVars, uploadVars, projectVars, appVars, summaryVars, listVars, filesVars>>

StoreSetProcessing ==
    /\ \E p \in BOOLEAN : setProcessing(p)
    /\ UNCHANGED <<pageVars, cacheVars, dialogVars, cardVars, gatewayVars, uploadVars, projectVars, appVars, summaryVars, listVars, filesVars>>

\* the partial updates the store specification applies
StorePartials ==
    { p \in PartialFilters :
        \/ DOMAIN p = {"yearMin"} /\ p["yearMin"] # Undefined
        \/ DOMAIN p = {"authors"} /\ p["authors"] # Undefined
        \/ DOMAIN p = {"yearMin", "authors"} /\ p["yearMin"] = Undefined
                                             /\ p["authors"] # Undefined }

StoreSetFilters ==
    /\ \E p \in StorePartials : setFilters(p)
    /\ UNCHANGED <<pageVars, cacheVars, dialogVars, cardVars, gatewayVars, uploadVars, projectVars, appVars, summaryVars, listVars, filesVars>>

StoreClearFilters ==
    /\ clearFilters
    /\ UNCHANGED <<pageVars, cacheVars, dialogVars, cardVars, gatewayVars, uploadVars, projectVars, appVars, summaryVars, listVars, filesVars>>

StoreClearMessages ==
    /\ clearMessages
    /\ UNCHANGED <<pageVars, cacheVars, dialogVars, cardVars, gatewayVars, uploadVars, projectVars, appVars, summaryVars, listVars, filesVars>>

InitStore == InitStoreVars /\ InitPageVars /\ InitCacheVars /\ InitDialogVars /\ InitCardVars /\ InitGatewayVars /\ InitUploadVars /\ InitFilesVars /\ InitListVars /\ InitSummaryVars /\ InitAppVars /\ InitProjectVars

NextStore ==
    \/ StoreAddMessage
    \/ StoreSetProcessing
    \/ StoreSetFilters
    \/ StoreClearFilters
    \/ StoreClearMessages

StoreSpec == InitStore /\ [][NextStore]_vars

----------------------------------------------------------------------------
(* C1: after every sequence of addMessage, setFilters, clearFilters and
   clearMessages calls, the record stored under 'rag-chat-storage' holds the
   last min(50, N) messages of the in-memory list, in the same order, and
   every field the current filters set. *)
C1_PersistedWindow ==
    LET N   == Len(messages)
        k   == Min(PersistWindow, N)
        rec == storage[StorageKey].state
    IN  /\ Len(rec.messages) = k
        /\ \A i \in 1..k : rec.messages[i] = ToJSONMessage(messages[N - k + i])
        /\ DOMAIN rec.filters = {f \in DOMAIN filters : filters[f] # Undefined}
        /\ \A f \in DOMAIN rec.filters : rec.filters[f] = filters[f]

C1_Witness ==
    /\ Len(messages) > PersistWindow
    /\ storage[StorageKey].state.messages[1].id = messages[Len(messages) - PersistWindow + 1].id
    /\ "authors" \in DOMAIN storage[StorageKey].state.filters
    /\ "yearMin" \in DOMAIN filters

(* C2: addMessage only appends: the previous list is a prefix of the new one,
   the new message is last with an id no other message of the list has; and
   no other store action shortens the list except clearMessages, which
   empties it, so the in-memory list is never cut to the persisted window. *)
C2_AppendOnly ==
    [][ /\ nextId' # nextId =>
             /\ Len(messages') = Len(messages) + 1
             /\ SubSeq(messages', 1, Len(messages)) = messages
             /\ \A i \in 1..Len(messages) :
                    messages'[i].id # messages'[Len(messages')].id
        /\ nextId' = nextId => (messages' = messages \/ messages' = <<>>) ]_vars

C2_Witness ==
    /\ Len(messages) = PersistWindow + 2
    /\ messages[1].id = 1
    /\ Len(storage[StorageKey].state.messages) = PersistWindow

----------------------------------------------------------------------------
(* Chat page *)

\* texts the input box may hold at a submit attempt
InputTexts == {"q1", "q2", " q1 ", "", "  "}

\* String.prototype.trim
Trim(t) ==
    CASE t = " q1 " -> "q1"
      [] t = "  "   -> ""
      [] OTHER      -> t

\* QueryRequest built by handleSubmit from the question and the filters it closed over
QueryRequest(question, flt) ==
    [question |-> question, top_k |-> 5,
     year_min |-> IF "yearMin" \in DOMAIN flt THEN flt["yearMin"] ELSE Undefined,
     year_max |-> IF "yearMax" \in DOMAIN flt THEN flt["yearMax"] ELSE Undefined,
     authors  |-> IF "authors" \in DOMAIN flt THEN flt["authors"] ELSE Undefined]

\* a handleSubmit call suspended at its await: the id of the user message it
\* appended, the request it sent and the mutation observer it belongs to
Call(uid, question, obs) ==
    [uid |-> uid, request |-> QueryRequest(question, filters), obs |-> obs]

\* ChatPage.handleSubmit up to the await
handleSubmit(question) ==
    /\ addMessage(UserPayload(question))
    /\ inflight' = inflight \cup {Call(nextId, question, epoch)}
    /\ ragStatus' = "pending"
    /\ UNCHANGED <<mounted, epoch>>

ChatInputSubmitUnguardedMutant(text) ==
    /\ mounted
    /\ (nextId - 1) + Cardinality(inflight) + 2 <= MaxChatMsgs
    /\ handleSubmit(text)
    /\ UNCHANGED <<cacheVars, dialogVars, cardVars, gatewayVars, uploadVars, projectVars, appVars, summaryVars, listVars, filesVars>>

\* ChatInput.handleSubmit: the guard, then onSubmit(question.trim())
ChatInputSubmit(text) ==
    /\ mounted
    /\ Trim(text) # ""
    /\ ragStatus # "pending"
    /\ (nextId - 1) + Cardinality(inflight) + 2 <= MaxChatMsgs
    /\ handleSubmit(Trim(text))
    /\ UNCHANGED <<cacheVars, dialogVars, cardVars, gatewayVars, uploadVars, projectVars, appVars, summaryVars, listVars, filesVars>>

SettleResetsMutant(call, status) ==
    ragStatus' = IF mounted /\ call.obs = epoch
                 THEN (IF status = "error" THEN "idle" ELSE status)
                 ELSE ragStatus

\* the observer of a settled mutation shows its status while it is the mounted one
Settle(call, status) ==
    ragStatus' = IF mounted /\ call.obs = epoch THEN status ELSE ragStatus

QuerySuccessDropMutant(call, response) ==
    /\ inflight' = inflight \ {call}
    /\ Settle(call, "success")
    /\ UNCHANGED <<storeVars, mounted, epoch, cacheVars, dialogVars, cardVars, gatewayVars, uploadVars, projectVars, appVars, summaryVars, listVars, filesVars>>

\* handleSubmit resumed with the response
QuerySuccess(call, response) ==
    /\ addMessage(AssistantPayload(response))
    /\ inflight' = inflight \ {call}
    /\ Settle(call, "success")
    /\ UNCHANGED <<mounted, epoch, cacheVars, dialogVars, cardVars, gatewayVars, uploadVars, projectVars, appVars, summaryVars, listVars, filesVars>>

QueryErrorRollbackMutant(call) ==
    /\ Set(SelectSeq(messages, LAMBDA m : m.id # call.uid)
               \o <<ErrorPayload @@ [id |-> nextId, timestamp |-> DateOf(nextId)]>>,
           filters, isProcessing)
    /\ nextId' = nextId + 1
    /\ inflight' = inflight \ {call}
    /\ Settle(call, "error")
    /\ UNCHANGED <<mounted, epoch, cacheVars, dialogVars, cardVars, gatewayVars, uploadVars, projectVars, appVars, summaryVars, listVars, filesVars>>

\* handleSubmit resumed in its catch block
QueryError(call) ==
    /\ addMessage(ErrorPayload)
    /\ inflight' = inflight \ {call}
    /\ Settle(call, "error")
    /\ UNCHANGED <<mounted, epoch, cacheVars, dialogVars, cardVars, gatewayVars, uploadVars, projectVars, appVars, summaryVars, listVars, filesVars>>

\* the Effacer button, shown while the list is not empty
ClickClear ==
    /\ mounted
    /\ Len(messages) > 0
    /\ clearMessages
    /\ UNCHANGED <<pageVars, cacheVars, dialogVars, cardVars, gatewayVars, uploadVars, projectVars, appVars, summaryVars, listVars, filesVars>>

\* navigation away from the chat route
Unmount ==
    /\ mounted
    /\ mounted' = FALSE
    /\ UNCHANGED <<storeVars, inflight, epoch, ragStatus, cacheVars, dialogVars, cardVars, gatewayVars, uploadVars, projectVars, appVars, summaryVars, listVars, filesVars>>

\* navigation back: a new ChatPage instance with a new useRagQuery observer
Mount ==
    /\ ~mounted
    /\ epoch < MaxMounts
    /\ mounted' = TRUE
    /\ epoch' = epoch + 1
    /\ ragStatus' = "idle"
    /\ UNCHANGED <<storeVars, inflight, cacheVars, dialogVars, cardVars, gatewayVars, uploadVars, projectVars, appVars, summaryVars, listVars, filesVars>>

Init == InitStoreVars /\ InitPageVars /\ InitCacheVars /\ InitDialogVars /\ InitCardVars /\ InitGatewayVars /\ InitUploadVars /\ InitFilesVars /\ InitListVars /\ InitSummaryVars /\ InitAppVars /\ InitProjectVars

Next ==
    \/ \E t \in InputTexts : ChatInputSubmit(t)
    \/ \E c \in inflight : \E r \in Responses(c.request.question) : QuerySuccess(c, r)
    \/ \E c \in inflight : QueryError(c)
    \/ ClickClear
    \/ Unmount
    \/ Mount

Spec == Init /\ [][Next]_vars

----------------------------------------------------------------------------
(* C3, as amended: every submit appends the user Message in the step that
   dispatches the query, and every dispatched query appends exactly one
   assistant Message when it terminates, after its own user Message whenever
   that Message is still in the log. *)
C3_SubmitThenAnswer ==
    [][ /\ \A c \in inflight' \ inflight :
             /\ Len(messages') = Len(messages) + 1
             /\ SubSeq(messages', 1, Len(messages)) = messages
             /\ messages'[Len(messages')].id = c.uid
             /\ messages'[Len(messages')].role = "user"
             /\ messages'[Len(messages')].content = c.request.question
        /\ \A c \in inflight \ inflight' :
             /\ Len(messages') = Len(messages) + 1
             /\ SubSeq(messages', 1, Len(messages)) = messages
             /\ messages'[Len(messages')].role = "assistant"
             /\ \A i \in 1..Len(messages') :
                    messages'[i].id = c.uid => i < Len(messages') ]_vars

C3_Witness ==
    /\ inflight = {}
    /\ Len(messages) = 2
    /\ messages[1].role = "user" /\ messages[1].content = "q1"
    /\ messages[2].role = "assistant" /\ messages[2].content = "a1"

(* C3 as stated: when a dispatched query terminates, its assistant Message
   is placed after its own user Message in the log. *)
C3_AnswerFollowsOwnQuestion ==
    [][ \A c \in inflight \ inflight' :
            \E i \in 1..(Len(messages') - 1) :
                /\ messages'[i].id = c.uid
                /\ messages'[Len(messages')].role = "assistant" ]_vars

(* C4: when a query fails, an assistant Message with the error content is
   appended and every Message already in the session stays as it was, the
   user Message of the failed query included. *)
C4_FailureKeepsLog ==
    [][ \A c \in inflight : QueryError(c) =>
            /\ Len(messages') = Len(messages) + 1
            /\ \A i \in 1..Len(messages) : messages'[i] = messages[i]
            /\ messages'[Len(messages')].role = "assistant"
            /\ messages'[Len(messages')].content = ErrorContent
            /\ \A i \in 1..Len(messages) :
                   messages[i].id = c.uid => messages'[i].id = c.uid ]_vars

C4_Witness ==
    /\ Len(messages) = 2
    /\ messages[1].role = "user"
    /\ messages[2].role = "assistant" /\ messages[2].content = ErrorContent
    /\ ragStatus = "error"

(* C8: queries in flight together are not serialized: the completion of one
   appends its assistant Message and leaves the others in flight, the log
   keeps the Messages in the order of the addMessage calls, and no Message
   appears twice. *)
C8_LogInCallOrder ==
    \A i, j \in 1..Len(messages) : i < j => messages[i].id < messages[j].id

C8_CompletionStep ==
    \A c \in inflight \ inflight' :
        Cardinality(inflight) >= 2 =>
            /\ inflight' = inflight \ {c}
            /\ Len(messages') = Len(messages) + 1
            /\ SubSeq(messages', 1, Len(messages)) = messages

C8_Interleaving == []C8_LogInCallOrder /\ [][C8_CompletionStep]_vars

\* the answer to the earlier question follows the answer to the later one
C8_Witness ==
    /\ Len(messages) = 4
    /\ messages[1].content = "q1" /\ messages[2].content = "q2"
    /\ messages[3].content = "a2" /\ messages[4].content = "a1"

----------------------------------------------------------------------------
(* Query cache and its invalidation edges *)

\* the query keys whose observers a page mounts
PageKeys(v) ==
    CASE v = <<"documents">>  -> {DocumentsKey("page1-limit10")}
      [] v = <<"dashboard">>  -> {HealthKey, StatsKey}
      [] v[1] = "projects"    -> {ProjectsKey(v[2])}
      [] v[1] = "project"     -> {ProjectKey(v[2])}
      [] OTHER                -> {}

\* AddSourceModal, which the project page renders once it has the project, reads
\* the indexed documents
DialogKeys(v, c) ==
    IF /\ v[1] = "project"
       /\ ProjectKey(v[2]) \in DOMAIN c
       /\ c[ProjectKey(v[2])].data # Undefined
    THEN {DocumentsKey("limit100-indexed")}
    ELSE {}

\* the keys with a mounted observer: the Header's health, the page's, the dialog's
Observers(v, c) == {HealthKey} \cup PageKeys(v) \cup DialogKeys(v, c)

Active(key) == key \in Observers(view, cache)

\* useStats staleTime, in ms; the other hooks set none
StatsStaleTime == 300000

StaleTime(key) == IF key = StatsKey THEN StatsStaleTime ELSE 0

IsStaleIgnoringInvalidationMutant(e) == e.data = Undefined \/ e.aged

\* a read fetches when the entry is invalidated, empty, or older than its staleTime
IsStale(e) == e.isInvalidated \/ e.data = Undefined \/ e.aged

\* what useQuery hands its component as data
Served(key) == IF key \in DOMAIN cache THEN cache[key].data ELSE Undefined

\* an observer of key mounts: create the entry, or refetch it when stale
ReadEntry(c, key) ==
    IF key \notin DOMAIN c THEN NewEntry
    ELSE IF IsStale(c[key]) THEN [c[key] EXCEPT !.fetching = TRUE]
    ELSE c[key]

\* the observers of (v, c2) that (view, c1) does not have read their keys as they mount
MountObservers(v, c1, c2) ==
    [k \in (DOMAIN c2) \cup Observers(v, c2) |->
        IF k \in Observers(v, c2) \ Observers(view, c1) THEN ReadEntry(c2, k) ELSE c2[k]]

\* route change or status filter change
Navigate(v) ==
    /\ v # view
    /\ navCount < MaxNavigations
    /\ navCount' = navCount + 1
    /\ view' = v
    /\ cache' = MountObservers(v, cache, cache)
    /\ UNCHANGED <<superseded, pendingMut, lastMutation, mutCount>>
    /\ UNCHANGED <<chatVars, dialogVars, cardVars, gatewayVars, uploadVars, projectVars, appVars, summaryVars, listVars, filesVars>>

\* a fetch returns: the entry holds the backend's data and is fresh again
FetchSuccess(key) ==
    /\ key \in DOMAIN cache
    /\ cache[key].fetching
    /\ cache' = MountObservers(view, cache,
                    [cache EXCEPT ![key] =
                        [data |-> Some("response"), isInvalidated |-> FALSE,
                         aged |-> (StaleTime(key) = 0), fetching |-> FALSE]])
    /\ superseded' = superseded \ {key}
    /\ UNCHANGED <<view, pendingMut, lastMutation, mutCount, navCount>>
    /\ UNCHANGED <<chatVars, dialogVars, cardVars, gatewayVars, uploadVars, projectVars, appVars, summaryVars, listVars, filesVars>>

\* a fetch fails: the entry keeps what it had
FetchError(key) ==
    /\ key \in DOMAIN cache
    /\ cache[key].fetching
    /\ cache' = [cache EXCEPT ![key].fetching = FALSE]
    /\ UNCHANGED <<view, superseded, pendingMut, lastMutation, mutCount, navCount>>
    /\ UNCHANGED <<chatVars, dialogVars, cardVars, gatewayVars, uploadVars, projectVars, appVars, summaryVars, listVars, filesVars>>

\* time passes beyond an entry's staleTime
StaleTimeLapses(key) ==
    /\ key \in DOMAIN cache
    /\ cache[key].data # Undefined
    /\ ~cache[key].aged
    /\ cache' = [cache EXCEPT ![key].aged = TRUE]
    /\ UNCHANGED <<view, superseded, pendingMut, lastMutation, mutCount, navCount>>
    /\ UNCHANGED <<chatVars, dialogVars, cardVars, gatewayVars, uploadVars, projectVars, appVars, summaryVars, listVars, filesVars>>

\* the mutation hooks
DocumentKinds == {"deleteDocument", "uploadDocument"}
IndexationKinds == {"indexBatch", "reindexEmbeddings", "resetDatabases"}
ProjectListKinds == {"createProject", "deleteProject"}
ProjectPageKinds ==
    {"updateProject", "addProjectSource", "updateProjectSource", "removeProjectSource",
     "createProjectSection", "updateProjectSection", "deleteProjectSection"}

\* a mutation call: the hook and the projectId among its variables ("-" when it has none)
Mutation(kind, projectId) == [kind |-> kind, project |-> projectId]

\* a mutation with the status its observer reports
Settled(m, status) == [kind |-> m.kind, project |-> m.project, status |-> status]

\* the calls each page can start
PageMutations(v) ==
    CASE v = <<"documents">>  -> {Mutation(k, "-") : k \in DocumentKinds}
      [] v = <<"indexation">> -> {Mutation(k, "-") : k \in IndexationKinds}
      [] v[1] = "projects"    -> {Mutation("createProject", "-")}
                                   \cup {Mutation("deleteProject", x) : x \in Projects}
      [] v[1] = "project"     -> {Mutation(k, v[2]) : k \in ProjectPageKinds}
      [] OTHER                -> {}

\* the controls that act on a fetched item render once its query has data
Rendered(m) ==
    \A k \in PageKeys(view) :
        m.kind \in {"deleteDocument", "deleteProject"} \cup ProjectPageKinds =>
            k \in DOMAIN cache /\ cache[k].data # Undefined

\* onSuccess of useDeleteDocument and useUploadDocument
DocumentTargets(m) == {<<"documents">>, <<"health">>, <<"stats">>}

\* onSuccess of useIndexBatch, useReindexEmbeddings and useResetDatabases
IndexationTargets(m) ==
    IF m.kind = "reindexEmbeddings"
    THEN {<<"documents">>, <<"stats">>}
    ELSE {<<"documents">>, <<"health">>, <<"stats">>}

ProjectTargetsAllProjectsMutant(m) ==
    CASE m.kind \in {"createProject", "deleteProject"} -> {<<"projects">>}
      [] m.kind \in {"updateProjectSource", "updateProjectSection"} -> {<<"project">>}
      [] m.kind = "exportProject" -> {}
      [] OTHER -> {<<"project">>, <<"projects">>}

ProjectTargetsExportInvalidatesMutant(m) ==
    CASE m.kind \in {"createProject", "deleteProject"} -> {<<"projects">>}
      [] m.kind \in {"updateProjectSource", "updateProjectSection"} ->
            {<<"project", m.project>>}
      [] OTHER -> {<<"project", m.project>>, <<"projects">>}

\* onSuccess of the project, source and section mutation hooks
ProjectTargets(m) ==
    CASE m.kind \in {"createProject", "deleteProject"} -> {<<"projects">>}
      [] m.kind \in {"updateProjectSource", "updateProjectSection"} ->
            {<<"project", m.project>>}
      [] m.kind = "exportProject" -> {}
      [] OTHER -> {<<"project", m.project>>, <<"projects">>}

\* the query filters a hook's onSuccess passes to invalidateQueries
InvalidationTargets(m) ==
    CASE m.kind \in DocumentKinds   -> DocumentTargets(m)
      [] m.kind \in IndexationKinds -> IndexationTargets(m)
      [] OTHER                      -> ProjectTargets(m)

\* a queryKey filter matches the keys it is a prefix of
Matches(filter, key) ==
    /\ Len(filter) <= Len(key)
    /\ \A i \in 1..Len(filter) : filter[i] = key[i]

\* queryClient.invalidateQueries: mark the matching entries, refetch the observed ones
InvalidateQueries(c, targets) ==
    [k \in DOMAIN c |->
        IF \E f \in targets : Matches(f, k)
        THEN [c[k] EXCEPT !.isInvalidated = TRUE, !.fetching = (c[k].fetching \/ Active(k))]
        ELSE c[k]]

\* the backend views whose data a mutation changes when the backend applies it
Effects(m) ==
    CASE m.kind \in DocumentKinds \cup {"indexBatch", "resetDatabases"} ->
            {<<"documents">>, <<"health">>, <<"stats">>}
      [] m.kind = "reindexEmbeddings" -> {<<"documents">>, <<"stats">>}
      [] m.kind = "createProject" -> {<<"projects">>}
      [] m.kind \in {"updateProjectSource", "updateProjectSection"} ->
            {<<"project", m.project>>}
      [] m.kind = "exportProject" -> {}
      [] OTHER -> {<<"projects">>, <<"project", m.project>>}

\* the backend applies a mutation: what the cache holds of the views it changes is
\* no longer what the backend holds
Apply(m) ==
    superseded \cup {k \in DOMAIN cache :
                        cache[k].data # Undefined /\ BackendView(k) \in Effects(m)}

\* mutate / mutateAsync
MutStart(m) ==
    /\ m \in PageMutations(view)
    /\ Rendered(m)
    /\ m \notin pendingMut
    /\ mutCount < MaxMutations
    /\ Cardinality(pendingMut) < MaxPending
    /\ pendingMut' = pendingMut \cup {m}
    /\ lastMutation' = Settled(m, "pending")
    /\ mutCount' = mutCount + 1
    /\ UNCHANGED <<view, cache, superseded, navCount>>
    /\ UNCHANGED <<chatVars, dialogVars, cardVars, gatewayVars, uploadVars, projectVars, appVars, summaryVars, listVars, filesVars>>

\* the gateway call resolves: onSuccess runs the invalidations
MutSuccess(m) ==
    /\ m \in pendingMut
    /\ superseded' = Apply(m)
    /\ cache' = InvalidateQueries(cache, InvalidationTargets(m))
    /\ pendingMut' = pendingMut \ {m}
    /\ lastMutation' = Settled(m, "success")
    /\ UNCHANGED <<view, mutCount, navCount>>
    /\ UNCHANGED <<chatVars, dialogVars, cardVars, gatewayVars, uploadVars, projectVars, appVars, summaryVars, listVars, filesVars>>

MutErrorInvalidatesMutant(m) ==
    /\ m \in pendingMut
    /\ cache' = InvalidateQueries(cache, InvalidationTargets(m))
    /\ pendingMut' = pendingMut \ {m}
    /\ lastMutation' = Settled(m, "error")
    /\ UNCHANGED <<view, superseded, mutCount, navCount>>
    /\ UNCHANGED <<chatVars, dialogVars, cardVars, gatewayVars, uploadVars, projectVars, appVars, summaryVars, listVars, filesVars>>

\* the gateway call rejects (no response, error status): no callback is registered
MutError(m) ==
    /\ m \in pendingMut
    /\ pendingMut' = pendingMut \ {m}
    /\ lastMutation' = Settled(m, "error")
    /\ UNCHANGED <<view, cache, superseded, mutCount, navCount>>
    /\ UNCHANGED <<chatVars, dialogVars, cardVars, gatewayVars, uploadVars, projectVars, appVars, summaryVars, listVars, filesVars>>

\* the gateway call exceeds the timeout after the backend has applied it
MutTimeout(m) ==
    /\ m \in pendingMut
    /\ superseded' = Apply(m)
    /\ pendingMut' = pendingMut \ {m}
    /\ lastMutation' = Settled(m, "error")
    /\ UNCHANGED <<view, cache, mutCount, navCount>>
    /\ UNCHANGED <<chatVars, dialogVars, cardVars, gatewayVars, uploadVars, projectVars, appVars, summaryVars, listVars, filesVars>>

Mutations ==
    {Mutation(k, "-") : k \in DocumentKinds \cup IndexationKinds \cup {"createProject"}}
        \cup {Mutation(k, x) : k \in ProjectPageKinds \cup {"deleteProject"}, x \in Projects}

\* the pages a session can open on
Routes == {v \in Views : Len(v) < 3}

\* the application opens on any page: the Header and the page mount their hooks
InitQueryCache ==
    /\ view \in Routes
    /\ cache = [k \in {HealthKey} \cup PageKeys(view) |-> NewEntry]
    /\ superseded = {}
    /\ pendingMut = {}
    /\ lastMutation = [kind |-> "-", project |-> "-", status |-> "idle"]
    /\ mutCount = 0
    /\ navCount = 0

InitCache == InitStoreVars /\ InitPageVars /\ InitQueryCache /\ InitDialogVars /\ InitCardVars /\ InitGatewayVars /\ InitUploadVars /\ InitFilesVars /\ InitListVars /\ InitSummaryVars /\ InitAppVars /\ InitProjectVars

NextCache ==
    \/ \E v \in Views : Navigate(v)
    \/ \E k \in Keys : FetchSuccess(k)
    \/ \E k \in Keys : FetchError(k)
    \/ \E k \in Keys : StaleTimeLapses(k)
    \/ \E m \in Mutations : MutStart(m)
    \/ \E m \in Mutations : MutSuccess(m)
    \/ \E m \in Mutations : MutError(m)
    \/ \E m \in Mutations : MutTimeout(m)

CacheSpec == InitCache /\ [][NextCache]_vars

(* Claims about the query cache *)

\* this step is the success of a mutation of the given kinds
Succeeds(kinds) ==
    /\ lastMutation'.status = "success"
    /\ \E m \in pendingMut \ pendingMut' : m.kind \in kinds /\ lastMutation'.kind = m.kind

\* this step is the failure of a mutation
Fails ==
    /\ lastMutation'.status = "error"
    /\ \E m \in pendingMut \ pendingMut' : lastMutation'.kind = m.kind

DocumentDomains == {"documents", "health", "stats"}

C6_ErrorLeavesCache ==
    [][ Fails => cache' = cache ]_vars

C6_Witness ==
    /\ lastMutation.status = "error"
    /\ pendingMut = {}
    /\ \E k \in DOMAIN cache :
            /\ k \in superseded
            /\ cache[k].data # Undefined
            /\ ~cache[k].isInvalidated
            /\ ~cache[k].fetching

\* C7: a successful addProjectSource on project P invalidates project:P and the
\* projects list (every status variant) and changes no other entry; a successful
\* updateProjectSection on P invalidates project:P and changes no other entry.
C7_ProjectInvalidation ==
    [][ \A m \in pendingMut \ pendingMut' :
            lastMutation' = Settled(m, "success")
                /\ m.kind \in {"addProjectSource", "updateProjectSection"} =>
            \A k \in DOMAIN cache :
                IF \/ k = <<"project", m.project>>
                   \/ m.kind = "addProjectSource" /\ k[1] = "projects"
                THEN cache'[k].isInvalidated
                ELSE cache'[k] = cache[k]
      ]_vars

C7_Witness ==
    /\ lastMutation = Settled(Mutation("addProjectSource", "P1"), "success")
    /\ cache[ProjectKey("P1")].isInvalidated
    /\ ProjectKey("P2") \in DOMAIN cache
    /\ cache[ProjectKey("P2")].data # Undefined
    /\ ~cache[ProjectKey("P2")].isInvalidated
    /\ DocumentsKey("limit100-indexed") \in DOMAIN cache
    /\ ~cache[DocumentsKey("limit100-indexed")].isInvalidated

(* Add-source dialog of a project page *)

\* indexed documents the dialog's document query lists
Docs == {"d1", "d2"}

\* ids of the sources the page passes to the dialog
existingSourceIds == srcCached

\* the documents the dialog offers (empty search text)
availableDocs == {d \in Docs : d \notin existingSourceIds}

\* the page's "+" button
OpenAddSource ==
    /\ ~modalOpen
    /\ modalOpen' = TRUE
    /\ UNCHANGED <<srcBackend, srcCached, srcFetching, selectedDoc, addPending, addStatus>>
    /\ UNCHANGED <<chatVars, cacheVars, cardVars, gatewayVars, uploadVars, projectVars, appVars, summaryVars, listVars, filesVars>>

\* Annuler, or the Modal's own close control
onClose ==
    /\ modalOpen
    /\ modalOpen' = FALSE
    /\ UNCHANGED <<srcBackend, srcCached, srcFetching, selectedDoc, addPending, addStatus>>
    /\ UNCHANGED <<chatVars, cacheVars, cardVars, gatewayVars, uploadVars, projectVars, appVars, summaryVars, listVars, filesVars>>

\* click on a listed document
setSelectedDoc(d) ==
    /\ modalOpen
    /\ d \in availableDocs
    /\ selectedDoc' = Some(d)
    /\ UNCHANGED <<srcBackend, srcCached, srcFetching, modalOpen, addPending, addStatus>>
    /\ UNCHANGED <<chatVars, cacheVars, cardVars, gatewayVars, uploadVars, projectVars, appVars, summaryVars, listVars, filesVars>>

\* Ajouter: up to the await of addSource.mutateAsync
handleAdd ==
    /\ modalOpen
    /\ selectedDoc # Undefined
    /\ addStatus # "pending"
    /\ addPending' = selectedDoc
    /\ addStatus' = "pending"
    /\ UNCHANGED <<srcBackend, srcCached, srcFetching, selectedDoc, modalOpen>>
    /\ UNCHANGED <<chatVars, cacheVars, cardVars, gatewayVars, uploadVars, projectVars, appVars, summaryVars, listVars, filesVars>>

\* the attach resolves: onSuccess invalidates the project, handleAdd resumes
AddSourceSuccess ==
    /\ addPending # Undefined
    /\ addPending[1] \notin srcBackend
    /\ srcBackend' = srcBackend \cup {addPending[1]}
    /\ srcFetching' = TRUE
    /\ addStatus' = "success"
    /\ addPending' = Undefined
    /\ modalOpen' = FALSE
    /\ selectedDoc' = Undefined
    /\ UNCHANGED srcCached
    /\ UNCHANGED <<chatVars, cacheVars, cardVars, gatewayVars, uploadVars, projectVars, appVars, summaryVars, listVars, filesVars>>

\* the backend rejects an attach of a document the project already has
AddSourceRejected ==
    /\ addPending # Undefined
    /\ addPending[1] \in srcBackend
    /\ addStatus' = "error"
    /\ addPending' = Undefined
    /\ UNCHANGED <<srcBackend, srcCached, srcFetching, selectedDoc, modalOpen>>
    /\ UNCHANGED <<chatVars, cacheVars, cardVars, gatewayVars, uploadVars, projectVars, appVars, summaryVars, listVars, filesVars>>

\* the attach fails before the backend applies it: handleAdd throws at the await
AddSourceFailed ==
    /\ addPending # Undefined
    /\ addStatus' = "error"
    /\ addPending' = Undefined
    /\ UNCHANGED <<srcBackend, srcCached, srcFetching, selectedDoc, modalOpen>>
    /\ UNCHANGED <<chatVars, cacheVars, cardVars, gatewayVars, uploadVars, projectVars, appVars, summaryVars, listVars, filesVars>>

\* the backend applies the attach but the client's timeout ends the call first
AddSourceTimedOut ==
    /\ addPending # Undefined
    /\ addPending[1] \notin srcBackend
    /\ srcBackend' = srcBackend \cup {addPending[1]}
    /\ addStatus' = "error"
    /\ addPending' = Undefined
    /\ UNCHANGED <<srcCached, srcFetching, selectedDoc, modalOpen>>
    /\ UNCHANGED <<chatVars, cacheVars, cardVars, gatewayVars, uploadVars, projectVars, appVars, summaryVars, listVars, filesVars>>

\* handleRemoveSource on a listed source resolves: onSuccess invalidates the project
RemoveSourceSuccess(d) ==
    /\ d \in srcCached
    /\ srcBackend' = srcBackend \ {d}
    /\ srcFetching' = TRUE
    /\ UNCHANGED <<srcCached, selectedDoc, modalOpen, addPending, addStatus>>
    /\ UNCHANGED <<chatVars, cacheVars, cardVars, gatewayVars, uploadVars, projectVars, appVars, summaryVars, listVars, filesVars>>

\* handleStatusChange resolves: onSuccess invalidates the project
UpdateProjectSuccess ==
    /\ ~srcFetching
    /\ srcFetching' = TRUE
    /\ UNCHANGED <<srcBackend, srcCached, selectedDoc, modalOpen, addPending, addStatus>>
    /\ UNCHANGED <<chatVars, cacheVars, cardVars, gatewayVars, uploadVars, projectVars, appVars, summaryVars, listVars, filesVars>>

\* the refetch of the project returns: the page re-renders with the new sources
RefetchProject ==
    /\ srcFetching
    /\ srcCached' = srcBackend
    /\ srcFetching' = FALSE
    /\ UNCHANGED <<srcBackend, selectedDoc, modalOpen, addPending, addStatus>>
    /\ UNCHANGED <<chatVars, cacheVars, cardVars, gatewayVars, uploadVars, projectVars, appVars, summaryVars, listVars, filesVars>>

\* a project page whose project, with no source yet, and documents are fetched
InitDialog ==
    /\ InitStoreVars /\ InitPageVars /\ InitDialogVars /\ InitCardVars /\ InitGatewayVars /\ InitUploadVars /\ InitFilesVars /\ InitListVars /\ InitSummaryVars /\ InitAppVars /\ InitProjectVars
    /\ view = <<"project", "P1">>
    /\ cache = [k \in {HealthKey, ProjectKey("P1"), DocumentsKey("limit100-indexed")} |->
                    [data |-> Some("response"), isInvalidated |-> FALSE,
                     aged |-> TRUE, fetching |-> FALSE]]
    /\ superseded = {}
    /\ pendingMut = {}
    /\ lastMutation = [kind |-> "-", project |-> "-", status |-> "idle"]
    /\ mutCount = 0
    /\ navCount = 0

NextDialog ==
    \/ OpenAddSource
    \/ onClose
    \/ \E d \in Docs : setSelectedDoc(d)
    \/ handleAdd
    \/ AddSourceSuccess
    \/ AddSourceRejected
    \/ AddSourceFailed
    \/ AddSourceTimedOut
    \/ \E d \in Docs : RemoveSourceSuccess(d)
    \/ UpdateProjectSuccess
    \/ RefetchProject

DialogSpec == InitDialog /\ [][NextDialog]_vars

\* C9: an attach of a document the project already has is rejected and leaves the
\* project's sources as they were, and the dialog issues no attach request for a
\* document whose id is among the sources the page holds for the project.
C9_NoAttachOfAttached ==
    [][ /\ addPending # Undefined /\ addPending[1] \in srcBackend /\ addStatus' = "error"
            => srcBackend' = srcBackend
        /\ addPending = Undefined /\ addPending' # Undefined
            => addPending'[1] \notin existingSourceIds
      ]_vars

(* Citation card *)

\* scores s = n/1000 with 100*s halfway between two integers whose binary64 product
\* source.relevance_score * 100 falls below the half; every other product rounds as
\* the exact value does, and no other denominator in use has such a score
ProductsBelowHalf == IF ScoreDenominator = 1000 THEN {145, 285, 565, 575} ELSE {}

relevancePercentFloorMutant == (100 * score) \div ScoreDenominator

\* Math.round(source.relevance_score * 100): nearest integer, halves upward
relevancePercent ==
    IF score \in ProductsBelowHalf
    THEN (100 * score) \div ScoreDenominator
    ELSE (200 * score + ScoreDenominator) \div (2 * ScoreDenominator)

\* the Badge variant: success is the high tier, info medium-high, warning medium,
\* default low
getRelevanceVariant(percent) ==
    IF percent >= 80 THEN "success"
    ELSE IF percent >= 60 THEN "info"
    ELSE IF percent >= 40 THEN "warning"
    ELSE "default"

\* a number in a condition: 0 counts as false, like undefined
Truthy(x) == x # Undefined /\ x[1] # 0

\* the address as the parts the template literals join
getDocumentPdfUrl(documentId, p) ==
    IF Truthy(p)
    THEN <<"/api/v1/documents/", documentId, "/pdf", "#page=", p[1]>>
    ELSE <<"/api/v1/documents/", documentId, "/pdf">>

\* source.page ?? undefined: null becomes undefined, a number stays
NullishToUndefined(x) == IF x = Undefined THEN Undefined ELSE x

\* page values of a citation: null, or a page number
Pages == {Undefined, Some(0), Some(1), Some(3)}

\* SourceCard renders a citation
SourceCard ==
    /\ variant = "none"
    /\ variant' = getRelevanceVariant(relevancePercent)
    /\ pdfUrl' = getDocumentPdfUrl(docId, NullishToUndefined(page))
    /\ UNCHANGED <<score, docId, page>>
    /\ UNCHANGED <<chatVars, cacheVars, dialogVars, gatewayVars, uploadVars, projectVars, appVars, summaryVars, listVars, filesVars>>

\* a citation with any score of the grid, not yet rendered
InitCard ==
    /\ InitStoreVars /\ InitPageVars /\ InitCacheVars /\ InitDialogVars /\ InitGatewayVars /\ InitUploadVars /\ InitFilesVars /\ InitListVars /\ InitSummaryVars /\ InitAppVars /\ InitProjectVars
    /\ score \in 0..ScoreDenominator
    /\ variant = "none"
    /\ docId \in {"d1", "d2"}
    /\ page \in Pages
    /\ pdfUrl = <<>>

NextCard == SourceCard

CardSpec == InitCard /\ [][NextCard]_vars

\* the tier of a score s = score/ScoreDenominator with thresholds hi > mid > lo given
\* in thousandths
TierWith(hi, mid, lo) ==
    IF 1000 * score >= hi * ScoreDenominator THEN "success"
    ELSE IF 1000 * score >= mid * ScoreDenominator THEN "info"
    ELSE IF 1000 * score >= lo * ScoreDenominator THEN "warning"
    ELSE "default"

\* C10 (as amended): the tier is a function of relevance_score alone, through the
\* score rounded to a whole percent: score >= 0.795 gives high, 0.595 <= score < 0.795
\* medium-high, 0.395 <= score < 0.595 medium, score < 0.395 low.
C10_TierOfRoundedPercent ==
    variant # "none" => variant = TierWith(795, 595, 395)

C10_Witness ==
    /\ 1000 * score = 795 * ScoreDenominator
    /\ variant = "success"

\* C10 (as the specification states it): score >= 0.8 gives high, 0.6 <= score < 0.8
\* medium-high, 0.4 <= score < 0.6 medium, score < 0.4 low.
C10_TierOfScore ==
    variant # "none" => variant = TierWith(800, 600, 400)

(* Citations of one message *)

\* SourceList: one numbered card per source, in the order of the array
SourceList(sources) ==
    [i \in 1..Len(sources) |-> [number |-> (i - 1) + 1, source |-> sources[i]]]

\* a list of citations is in descending order of relevance_score
Descending(s) ==
    \A i, j \in 1..Len(s) : i < j => s[i].relevance_score >= s[j].relevance_score

\* C11: the citations of every assistant Message are in descending order of
\* relevance_score, as stored in the session and as numbered and displayed,
\* whatever order the backend response lists them in.
C11_CitationsDescending ==
    \A i \in 1..Len(messages) :
        messages[i].sources # Undefined =>
            /\ Descending(messages[i].sources[1])
            /\ Descending([k \in 1..Len(messages[i].sources[1]) |->
                              SourceList(messages[i].sources[1])[k].source])

\* C12: the deep link of a citation is the base document-view address of its
\* document_id, followed by "#page=<n>" exactly when the citation has a page number
\* n (0 included), and with no fragment when page is null.
C12_DeepLink ==
    variant # "none" =>
        pdfUrl = IF page # Undefined
                 THEN <<"/api/v1/documents/", docId, "/pdf", "#page=", page[1]>>
                 ELSE <<"/api/v1/documents/", docId, "/pdf">>

(* Claims about the filters of the session *)

\* C13: setFilters(p) yields the prior filters overridden by the fields given in p:
\* a field p does not name keeps its prior value, a field p names takes p's value,
\* and the message list is unchanged. (A step that changes the filters and does not
\* empty them is a setFilters.)
C13_SetFiltersMerges ==
    [][ filters' # filters /\ filters' # EmptyFilters =>
            /\ messages' = messages
            /\ \E p \in StorePartials :
                /\ DOMAIN filters' = (DOMAIN filters) \cup (DOMAIN p)
                /\ \A f \in DOMAIN p : filters'[f] = p[f]
                /\ \A f \in (DOMAIN filters) \ (DOMAIN p) : filters'[f] = filters[f]
      ]_vars

\* setFilters({yearMin: 2020}) then setFilters({authors: ["X"]}), with messages in
\* the list
C13_Witness ==
    /\ DOMAIN filters = {"yearMin", "authors"}
    /\ filters["yearMin"] = Some(2020)
    /\ filters["authors"] = Some(<<"X">>)
    /\ Len(messages) = 2

(* Restart of the process *)

HydrateEmptyMutant(store) == [messages |-> <<>>, filters |-> EmptyFilters]

\* persist on creation: the stored record, parsed, over the initial state; the
\* timestamps stay the strings JSON holds
Hydrate(store) ==
    IF StorageKey \in DOMAIN store
    THEN [messages |-> store[StorageKey].state.messages,
          filters  |-> store[StorageKey].state.filters]
    ELSE [messages |-> <<>>, filters |-> EmptyFilters]

\* the page is reloaded: a new store is created and hydrated, then written back;
\* requests in flight are lost with the old page
Restart ==
    /\ epoch <= MaxRestarts
    /\ LET h == Hydrate(storage) IN Set(h.messages, h.filters, FALSE)
    /\ UNCHANGED nextId
    /\ inflight' = {}
    /\ mounted' = TRUE
    /\ epoch' = epoch + 1
    /\ ragStatus' = "idle"
    /\ UNCHANGED <<cacheVars, dialogVars, cardVars, gatewayVars, uploadVars, projectVars, appVars, summaryVars, listVars, filesVars>>

\* the browser's storage for the site is cleared
ClearSiteData ==
    /\ StorageKey \in DOMAIN storage
    /\ storage' = [k \in {} |-> 0]
    /\ UNCHANGED <<messages, filters, isProcessing, nextId>>
    /\ UNCHANGED <<pageVars, cacheVars, dialogVars, cardVars, gatewayVars, uploadVars, projectVars, appVars, summaryVars, listVars, filesVars>>

\* a session that adds messages and sets filters, across restarts
NextRestart ==
    \/ StoreAddMessage
    \/ StoreSetFilters
    \/ Restart
    \/ ClearSiteData

RestartSpec == InitStore /\ [][NextRestart]_vars

\* the value of a filter field, undefined when the field is absent
FilterValue(f, k) == IF k \in DOMAIN f THEN f[k] ELSE Undefined

\* the filters are the same after the restart, and the list is the last min(50, N)
\* messages in order, each related to its original by SameMessage
RoundTrip(SameMessage(_, _)) ==
    LET N == Len(messages)
        k == Min(PersistWindow, N)
    IN  IF StorageKey \in DOMAIN storage
        THEN /\ Len(messages') = k
             /\ \A i \in 1..k : SameMessage(messages'[i], messages[N - k + i])
             /\ \A f \in FilterFields : FilterValue(filters', f) = FilterValue(filters, f)
        ELSE messages' = <<>> /\ filters' = EmptyFilters

\* the message read back: every field as it was, the timestamp as the string of
\* the same instant
ReadBack(after, before) ==
    after = [before EXCEPT !.timestamp = [type |-> "string", ms |-> before.timestamp.ms]]

Identical(after, before) == after = before

\* C14 (as amended): on a restart with a persisted record the live list is the last
\* min(50, N) messages of the pre-restart list, in the same order, each with the
\* same id, role, content, sources and processing time and with its timestamp as
\* the ISO string of the original instant; the filters have the same value in every
\* field; with no persisted record the session starts with no messages and empty
\* filters.
C14_RestartRoundTrip ==
    [][ epoch' # epoch => RoundTrip(ReadBack) ]_vars

C14_Witness ==
    /\ epoch = 2
    /\ Len(messages) = PersistWindow
    /\ messages[1].id = 3
    /\ messages[1].timestamp.type = "string"
    /\ FilterValue(filters, "yearMin") = Some(2020)

\* C14 (as the specification states it): the rehydrated messages equal the
\* pre-restart messages.
C14_RestartIdentity ==
    [][ epoch' # epoch => RoundTrip(Identical) ]_vars

(* Claims about the lifecycle of the query operation *)

\* C15: within one useRagQuery observer every invocation goes from idle or a
\* terminal state to pending and then to exactly one of success or error: the
\* status changes only by a submit (to pending) or by the settling of the
\* observer's own pending call (to success or error), one call settles per step, and
\* an error status is left only by the next invocation.
C15_Lifecycle ==
    [][ /\ Cardinality(inflight \ inflight') <= 1
        /\ \A c \in inflight' \ inflight :
                c.obs = epoch /\ ragStatus # "pending" /\ ragStatus' = "pending"
        /\ \A c \in inflight \ inflight' :
                mounted /\ c.obs = epoch =>
                    ragStatus = "pending" /\ ragStatus' \in {"success", "error"}
        /\ epoch' = epoch /\ ragStatus' # ragStatus =>
                \/ ragStatus' = "pending" /\ inflight' \ inflight # {}
                \/ /\ ragStatus = "pending"
                   /\ ragStatus' \in {"success", "error"}
                   /\ \E c \in inflight \ inflight' : c.obs = epoch
        /\ epoch' = epoch /\ ragStatus = "error" /\ ragStatus' # "error" =>
                ragStatus' = "pending"
      ]_vars

\* an invocation that ended in error, then one of the same observer that succeeded
C15_Witness ==
    /\ epoch = 1
    /\ ragStatus = "success"
    /\ inflight = {}
    /\ \E i \in 1..Len(messages) : messages[i].content = ErrorContent

----------------------------------------------------------------------------
(* Gateway calls in time: the axios timeout, retries, the health poll *)

\* apiClient timeout, in ms
Timeout == 120000

\* useHealth refetchInterval, in ms
HealthRefetchInterval == 30000

\* useHealth retry
HealthRetry == 1

\* retry of the QueryClient's defaultOptions, for hooks that set none
DefaultOptionsRetry == 0

Reads == {"documents", "health"}

RetryAllMutant(op) == HealthRetry

\* how many times a failed gateway call of the operation is made again
Retry(op) == IF op = "health" THEN HealthRetry ELSE DefaultOptionsRetry

\* what a call of the operation resolves with
Result(op) == IF op = "health" THEN Some(backendHealth) ELSE Some("response")

\* a gateway call of r rejects: the call is made again while retries are left,
\* else the operation ends in error; a read keeps the data it had
Failed(op, r, reason) ==
    IF r.failureCount < Retry(op)
    THEN [r EXCEPT !.failureCount = r.failureCount + 1, !.elapsed = 0,
                   !.failure = reason]
    ELSE [r EXCEPT !.status = "error", !.failureCount = r.failureCount + 1,
                   !.elapsed = 0, !.failure = reason]

\* the pages of this specification
GatewayViews == {<<"chat">>, <<"documents">>}

\* the operation can be invoked from the mounted page and is not running
Invocable(op) ==
    /\ gw[op].status # "pending"
    /\ \/ op = "query" /\ view = <<"chat">>
       \/ op = "deleteDocument" /\ view = <<"documents">>

\* the user submits a question, or deletes a document
Invoke(op) ==
    /\ Invocable(op)
    /\ gw' = [gw EXCEPT ![op] = Start(gw[op], FALSE)]
    /\ UNCHANGED <<backendHealth, cacheVars, chatVars, dialogVars, cardVars, uploadVars, projectVars, appVars, summaryVars, listVars, filesVars>>

\* route change: DocumentsPage mounts useDocuments, which fetches unless a fetch runs
GatewayNavigate(v) ==
    /\ v \in GatewayViews
    /\ v # view
    /\ view' = v
    /\ gw' = IF v = <<"documents">> /\ gw["documents"].status # "pending"
             THEN [gw EXCEPT !["documents"] = Start(gw["documents"], TRUE)]
             ELSE gw
    /\ UNCHANGED <<cache, superseded, pendingMut, lastMutation, mutCount, navCount>>
    /\ UNCHANGED <<backendHealth, chatVars, dialogVars, cardVars, uploadVars, projectVars, appVars, summaryVars, listVars, filesVars>>

\* the reads a successful operation invalidates and that have an observer: they
\* are fetched again, a running fetch of theirs being replaced
Refetched(op) ==
    IF op = "deleteDocument"
    THEN {"health"} \cup (IF view = <<"documents">> THEN {"documents"} ELSE {})
    ELSE {}

RespondLateMutant(op) ==
    /\ gw[op].status = "pending"
    /\ gw[op].elapsed <= Timeout
    /\ gw' = [o \in Operations |->
                IF o = op
                THEN [status |-> "success", failureCount |-> 0, elapsed |-> 0,
                      failure |-> "-", data |-> Result(op)]
                ELSE IF o \in Refetched(op) THEN Start(gw[o], TRUE)
                ELSE gw[o]]
    /\ UNCHANGED <<backendHealth, cacheVars, chatVars, dialogVars, cardVars, uploadVars, projectVars, appVars, summaryVars, listVars, filesVars>>

\* the backend answers before the timeout
Respond(op) ==
    /\ gw[op].status = "pending"
    /\ gw[op].elapsed < Timeout
    /\ gw' = [o \in Operations |->
                IF o = op
                THEN [status |-> "success", failureCount |-> 0, elapsed |-> 0,
                      failure |-> "-", data |-> Result(op)]
                ELSE IF o \in Refetched(op) THEN Start(gw[o], TRUE)
                ELSE gw[o]]
    /\ UNCHANGED <<backendHealth, cacheVars, chatVars, dialogVars, cardVars, uploadVars, projectVars, appVars, summaryVars, listVars, filesVars>>

Rejections == {"NetworkError", "BackendError"}

\* no response, or an error status, before the timeout
Reject(op, reason) ==
    /\ gw[op].status = "pending"
    /\ gw[op].elapsed < Timeout
    /\ gw' = [gw EXCEPT ![op] = Failed(op, gw[op], reason)]
    /\ UNCHANGED <<backendHealth, cacheVars, chatVars, dialogVars, cardVars, uploadVars, projectVars, appVars, summaryVars, listVars, filesVars>>

\* axios gives the call up when the timeout has passed
GatewayTimeout(op) ==
    /\ gw[op].status = "pending"
    /\ gw[op].elapsed >= Timeout
    /\ gw' = [gw EXCEPT ![op] = Failed(op, gw[op], "TimeoutError")]
    /\ UNCHANGED <<backendHealth, cacheVars, chatVars, dialogVars, cardVars, uploadVars, projectVars, appVars, summaryVars, listVars, filesVars>>

TickSkipsInvalidatedMutant ==
    /\ \A op \in Operations : gw[op].status = "pending" => gw[op].elapsed < Timeout
    /\ gw' = [op \in Operations |->
                IF gw[op].status = "pending"
                THEN [gw[op] EXCEPT !.elapsed = gw[op].elapsed + HealthRefetchInterval]
                ELSE IF op = "health" /\ gw["deleteDocument"].status # "success"
                THEN Start(gw[op], TRUE)
                ELSE gw[op]]
    /\ UNCHANGED <<backendHealth, cacheVars, chatVars, dialogVars, cardVars, uploadVars, projectVars, appVars, summaryVars, listVars, filesVars>>

\* one refetch interval passes: the calls in flight are that much older, and the
\* interval timer of useHealth fetches health unless a fetch of it runs
Tick ==
    /\ \A op \in Operations : gw[op].status = "pending" => gw[op].elapsed < Timeout
    /\ gw' = [op \in Operations |->
                IF gw[op].status = "pending"
                THEN [gw[op] EXCEPT !.elapsed = gw[op].elapsed + HealthRefetchInterval]
                ELSE IF op = "health" THEN Start(gw[op], TRUE)
                ELSE gw[op]]
    /\ UNCHANGED <<backendHealth, cacheVars, chatVars, dialogVars, cardVars, uploadVars, projectVars, appVars, summaryVars, listVars, filesVars>>

HealthStatuses == {"healthy", "degraded"}

\* the backend recovers or degrades
BackendHealthChanges ==
    /\ backendHealth' \in HealthStatuses \ {backendHealth}
    /\ UNCHANGED <<gw, cacheVars, chatVars, dialogVars, cardVars, uploadVars, projectVars, appVars, summaryVars, listVars, filesVars>>

InitGateway == InitStoreVars /\ InitPageVars /\ InitCacheVars /\ InitDialogVars /\ InitCardVars /\ InitGatewayVars /\ InitUploadVars /\ InitFilesVars /\ InitListVars /\ InitSummaryVars /\ InitAppVars /\ InitProjectVars

NextGateway ==
    \/ \E op \in Operations : Invoke(op)
    \/ \E v \in GatewayViews : GatewayNavigate(v)
    \/ \E op \in Operations : Respond(op)
    \/ \E op \in Operations, reason \in Rejections : Reject(op, reason)
    \/ \E op \in Operations : GatewayTimeout(op)
    \/ Tick
    \/ BackendHealthChanges

GatewaySpec == InitGateway /\ [][NextGateway]_vars

(* Claims about gateway calls *)

\* this step is the success of an operation that makes op be fetched again
Replaced(op) ==
    \E o \in Operations :
        op \in Refetched(o) /\ gw[o].status = "pending" /\ gw'[o].status = "success"

\* this step is the end of a gateway call of op by the timeout
TimesOut(op) ==
    /\ gw[op].status = "pending"
    /\ gw[op].elapsed >= Timeout
    /\ gw'[op] # gw[op]
    /\ ~Replaced(op)

MaxCalls(op) == IF op = "health" THEN 2 ELSE 1

PollOperations == Operations \ {"query"}

NextPoll ==
    \/ Invoke("deleteDocument")
    \/ \E v \in GatewayViews : GatewayNavigate(v)
    \/ \E op \in PollOperations : Respond(op)
    \/ \E op \in PollOperations, reason \in Rejections : Reject(op, reason)
    \/ \E op \in PollOperations : GatewayTimeout(op)
    \/ Tick
    \/ BackendHealthChanges

PollSpec ==
    /\ InitGateway
    /\ [][NextPoll]_vars
    /\ WF_vars(Tick)
    /\ WF_vars(\E op \in PollOperations : GatewayTimeout(op))
    /\ SF_vars(Respond("health"))

\* this step is the passing of one refetch interval
Ticks ==
    \E op \in Operations :
        /\ gw[op].status = "pending"
        /\ gw'[op].status = "pending"
        /\ gw'[op].elapsed = gw[op].elapsed + HealthRefetchInterval

\* the cached health is what the backend reports now
HealthReflected == gw["health"].data = Some(backendHealth)

----------------------------------------------------------------------------
(* Leaving the page or closing the dialog that started a call *)

\* the routes of this specification
DismissViews == {<<"chat">>, <<"documents">>, <<"dashboard">>}

GoCancelsMutant(v) ==
    /\ v \in DismissViews
    /\ v # view
    /\ navCount < MaxNavigations
    /\ navCount' = navCount + 1
    /\ view' = v
    /\ cache' = MountObservers(v, cache, cache)
    /\ mounted' = (v = <<"chat">>)
    /\ epoch' = IF v = <<"chat">> THEN epoch + 1 ELSE epoch
    /\ ragStatus' = IF v = <<"chat">> THEN "idle" ELSE ragStatus
    /\ uploadModalOpen' = FALSE
    /\ inflight' = {}
    /\ pendingMut' = {}
    /\ UNCHANGED <<storeVars, superseded, lastMutation, mutCount>>
    /\ UNCHANGED <<dialogVars, cardVars, gatewayVars, projectVars, appVars, summaryVars, listVars, filesVars>>

\* route change: the page that is left unmounts with its state (the useRagQuery
\* observer of ChatPage, uploadModalOpen of DocumentsPage), the new one mounts
Go(v) ==
    /\ v \in DismissViews
    /\ v # view
    /\ navCount < MaxNavigations
    /\ navCount' = navCount + 1
    /\ view' = v
    /\ cache' = MountObservers(v, cache, cache)
    /\ mounted' = (v = <<"chat">>)
    /\ epoch' = IF v = <<"chat">> THEN epoch + 1 ELSE epoch
    /\ ragStatus' = IF v = <<"chat">> THEN "idle" ELSE ragStatus
    /\ uploadModalOpen' = FALSE
    /\ UNCHANGED <<storeVars, inflight, superseded, pendingMut, lastMutation, mutCount>>
    /\ UNCHANGED <<dialogVars, cardVars, gatewayVars, projectVars, appVars, summaryVars, listVars, filesVars>>

\* the Uploader des PDFs button of DocumentsPage
OpenUpload ==
    /\ view = <<"documents">>
    /\ ~uploadModalOpen
    /\ uploadModalOpen' = TRUE
    /\ UNCHANGED <<chatVars, cacheVars, dialogVars, cardVars, gatewayVars, projectVars, appVars, summaryVars, listVars, filesVars>>

\* UploadModal.handleClose: the Fermer button, enabled during an upload too
handleClose ==
    /\ uploadModalOpen
    /\ uploadModalOpen' = FALSE
    /\ UNCHANGED <<chatVars, cacheVars, dialogVars, cardVars, gatewayVars, projectVars, appVars, summaryVars, listVars, filesVars>>

Upload == Mutation("uploadDocument", "-")

\* UploadModal.uploadFiles: mutateAsync of a dropped file
uploadFiles ==
    /\ uploadModalOpen
    /\ MutStart(Upload)

InitDismiss == Init

NextDismiss ==
    \/ \E t \in InputTexts : ChatInputSubmit(t)
    \/ \E c \in inflight : \E r \in Responses(c.request.question) : QuerySuccess(c, r)
    \/ \E c \in inflight : QueryError(c)
    \/ \E v \in DismissViews : Go(v)
    \/ OpenUpload
    \/ handleClose
    \/ uploadFiles
    \/ MutSuccess(Upload)
    \/ MutError(Upload)
    \/ \E k \in Keys : FetchSuccess(k)
    \/ \E k \in Keys : FetchError(k)

DismissSpec == InitDismiss /\ [][NextDismiss]_vars

\* this step dismisses the chat page or the upload dialog
Dismisses ==
    \/ mounted /\ ~mounted'
    \/ uploadModalOpen /\ ~uploadModalOpen'

\* C19: no step that dismisses the chat page or the upload dialog removes a
\* pending call; a query call ends only by appending one assistant Message,
\* whether or not its page is still mounted, and an upload ends only in success or
\* error, its success marking every cached documents, health and stats entry
\* invalidated whether or not the dialog or the page is still there.
C19_NeverCancelled ==
    [][ /\ Dismisses => inflight' = inflight /\ pendingMut' = pendingMut
        /\ \A c \in inflight \ inflight' :
                /\ Len(messages') = Len(messages) + 1
                /\ messages'[Len(messages')].role = "assistant"
        /\ \A m \in pendingMut \ pendingMut' :
                /\ lastMutation' \in {Settled(m, "success"), Settled(m, "error")}
                /\ lastMutation'.status = "success" =>
                        \A k \in DOMAIN cache :
                            k[1] \in DocumentDomains => cache'[k].isInvalidated
      ]_vars

\* on the dashboard: the query submitted on the chat page has been answered after
\* the page was left, and the upload started in the dialog has succeeded after the
\* documents page was left
C19_Witness ==
    /\ view = <<"dashboard">>
    /\ ~mounted
    /\ ragStatus = "pending"
    /\ inflight = {}
    /\ Len(messages) = 2
    /\ messages[2].role = "assistant"
    /\ lastMutation = Settled(Upload, "success")
    /\ \E k \in DOMAIN cache :
            k[1] = "documents" /\ cache[k].isInvalidated /\ ~cache[k].fetching

----------------------------------------------------------------------------
(* The project page renders the sections of the cached project *)

\* section_order values of a project's sections
MaxSectionOrder == 2

SectionIds == {"s1", "s2"}

\* ProjectSectionInfo, by the fields the page orders by
Sections == [id : SectionIds, section_order : 1..MaxSectionOrder]

\* project.sections as a response can hold it: each section once, in any order
SectionLists ==
    {<<>>} \cup {<<a>> : a \in Sections}
           \cup {p \in Sections \X Sections : p[1].id # p[2].id}

\* one step of the sort: x goes behind the elements that do not come after it
InsertSectionDescendingMutant(sorted, x) ==
    LET k == Cardinality({i \in 1..Len(sorted) :
                            x.section_order - sorted[i].section_order <= 0})
    IN  SubSeq(sorted, 1, k) \o <<x>> \o SubSeq(sorted, k + 1, Len(sorted))

InsertSection(sorted, x) ==
    LET k == Cardinality({i \in 1..Len(sorted) :
                            sorted[i].section_order - x.section_order <= 0})
    IN  SubSeq(sorted, 1, k) \o <<x>> \o SubSeq(sorted, k + 1, Len(sorted))

RECURSIVE SortSections(_)
\* Array.prototype.sort((a, b) => a.section_order - b.section_order): stable
SortSections(s) ==
    IF s = <<>> THEN <<>>
    ELSE InsertSection(SortSections(SubSeq(s, 1, Len(s) - 1)), s[Len(s)])

RenderedProject == ProjectKey("P1")

\* getProject resolves: the entry holds the response
ProjectFetchSuccess(sections) ==
    /\ RenderedProject \in DOMAIN cache
    /\ cache[RenderedProject].fetching
    /\ cache' = MountObservers(view, cache,
                    [cache EXCEPT ![RenderedProject] =
                        [data |-> Some(sections), isInvalidated |-> FALSE,
                         aged |-> TRUE, fetching |-> FALSE]])
    /\ superseded' = superseded \ {RenderedProject}
    /\ UNCHANGED <<view, pendingMut, lastMutation, mutCount, navCount>>
    /\ UNCHANGED <<chatVars, dialogVars, cardVars, gatewayVars, uploadVars, projectVars, appVars, summaryVars, listVars, filesVars>>

\* ProjectDetailPage renders the section list: project is the entry's data, and
\* sort orders project.sections itself
RenderSections ==
    /\ view = <<"project", "P1">>
    /\ Served(RenderedProject) # Undefined
    /\ cache' = [cache EXCEPT ![RenderedProject].data =
                    Some(SortSections(cache[RenderedProject].data[1]))]
    /\ UNCHANGED <<view, superseded, pendingMut, lastMutation, mutCount, navCount>>
    /\ UNCHANGED <<chatVars, dialogVars, cardVars, gatewayVars, uploadVars, projectVars, appVars, summaryVars, listVars, filesVars>>

SaveSection == Mutation("updateProjectSection", "P1")

\* the page of project P1 mounts
InitRender ==
    /\ InitStoreVars /\ InitPageVars /\ InitDialogVars /\ InitCardVars
    /\ InitGatewayVars /\ InitUploadVars /\ InitFilesVars /\ InitListVars /\ InitSummaryVars /\ InitAppVars /\ InitProjectVars
    /\ view = <<"project", "P1">>
    /\ cache = [k \in {HealthKey, RenderedProject} |-> NewEntry]
    /\ superseded = {}
    /\ pendingMut = {}
    /\ lastMutation = [kind |-> "-", project |-> "-", status |-> "idle"]
    /\ mutCount = 0
    /\ navCount = 0

NextRender ==
    \/ \E s \in SectionLists : ProjectFetchSuccess(s)
    \/ \E k \in Keys \ {RenderedProject} : FetchSuccess(k)
    \/ \E k \in Keys : FetchError(k)
    \/ RenderSections
    \/ MutStart(SaveSection)
    \/ MutSuccess(SaveSection)
    \/ MutError(SaveSection)

RenderSpec == InitRender /\ [][NextRender]_vars

\* C20: the data of a cache entry changes only in the step in which a fetch of its
\* key returns, and its invalidation flag only then or by an invalidation; in
\* particular rendering the project leaves the sections of its entry, and their
\* order, as the fetch wrote them.
C20_OnlyFetchWrites ==
    [][ \A k \in DOMAIN cache :
            /\ cache'[k].data # cache[k].data =>
                    cache[k].fetching /\ ~cache'[k].fetching
            /\ cache'[k].isInvalidated # cache[k].isInvalidated =>
                    \/ cache[k].fetching /\ ~cache'[k].fetching
                    \/ lastMutation'.status = "success" /\ pendingMut' # pendingMut
      ]_vars

----------------------------------------------------------------------------
(* The project page: its handlers' requests, the backend's project, export *)

\* requests one session sends
MaxSent == 2

ProjectStatuses == {"draft", "in_progress", "completed"}

\* values of a section's content / of the edit buffer
Contents == {"", "text"}

\* ProjectSectionInfo with the fields the page reads or writes
ProjectSections ==
    [id : SectionIds, section_order : 1..MaxSectionOrder,
     status : {"draft", "review", "final"}, content : Contents]

\* a request of the page: the hook, the source or section it addresses, its body
Request(kind, target, data) == [kind |-> kind, target |-> target, data |-> data]

\* the project data and the controls are rendered once useProject has data
ProjectLoaded ==
    /\ view = <<"project", "P1">>
    /\ Served(RenderedProject) # Undefined

\* project.sections of the cached project
CachedSections == cache[RenderedProject].data[1]

\* mutateAsync of one of the page's hooks
Send(r) ==
    /\ ProjectLoaded
    /\ sentCount < MaxSent
    /\ r \notin sent
    /\ sent' = sent \cup {r}
    /\ sentCount' = sentCount + 1

\* the status select
handleStatusChange(status) ==
    /\ Send(Request("updateProject", "-", [status |-> status]))
    /\ UNCHANGED <<backendProject, shownSections, downloads, editingSectionId, sectionContent>>
    /\ UNCHANGED <<chatVars, cacheVars, dialogVars, cardVars, gatewayVars, uploadVars, appVars, summaryVars, listVars, filesVars>>

\* handleSaveTitle: the title input's save
handleSaveTitle(title) ==
    /\ Send(Request("updateProject", "-", [title |-> title]))
    /\ UNCHANGED <<backendProject, shownSections, downloads, editingSectionId, sectionContent>>
    /\ UNCHANGED <<chatVars, cacheVars, dialogVars, cardVars, gatewayVars, uploadVars, appVars, summaryVars, listVars, filesVars>>

\* the remove button of a source
handleRemoveSource(sourceId) ==
    /\ Send(Request("removeProjectSource", sourceId, <<>>))
    /\ UNCHANGED <<backendProject, shownSections, downloads, editingSectionId, sectionContent>>
    /\ UNCHANGED <<chatVars, cacheVars, dialogVars, cardVars, gatewayVars, uploadVars, appVars, summaryVars, listVars, filesVars>>

\* AddSourceModal.handleAdd with the dialog's default notes and relevance
AddSource(doc) ==
    /\ Send(Request("addProjectSource", "-",
                    [document_id |-> doc, notes |-> Undefined, relevance |-> "medium"]))
    /\ UNCHANGED <<backendProject, shownSections, downloads, editingSectionId, sectionContent>>
    /\ UNCHANGED <<chatVars, cacheVars, dialogVars, cardVars, gatewayVars, uploadVars, appVars, summaryVars, listVars, filesVars>>

\* title || null
OrNull(title) == IF title = "" THEN Undefined ELSE Some(title)

\* AddSectionModal.handleCreate
handleCreate(sectionType, title) ==
    /\ Cardinality(backendProject.sections) < Cardinality(SectionIds)
    /\ Send(Request("createProjectSection", "-",
                    [section_type |-> sectionType, title |-> OrNull(title)]))
    /\ UNCHANGED <<backendProject, shownSections, downloads, editingSectionId, sectionContent>>
    /\ UNCHANGED <<chatVars, cacheVars, dialogVars, cardVars, gatewayVars, uploadVars, appVars, summaryVars, listVars, filesVars>>

\* SectionItem onEdit of a listed section: section.content || ''
onEdit(section) ==
    /\ ProjectLoaded
    /\ \E i \in 1..Len(CachedSections) : CachedSections[i] = section
    /\ editingSectionId # Some(section.id)
    /\ editingSectionId' = Some(section.id)
    /\ sectionContent' = section.content
    /\ UNCHANGED <<backendProject, sent, sentCount, shownSections, downloads>>
    /\ UNCHANGED <<chatVars, cacheVars, dialogVars, cardVars, gatewayVars, uploadVars, appVars, summaryVars, listVars, filesVars>>

\* the textarea of the section in edit mode
onContentChange(c) ==
    /\ ProjectLoaded
    /\ editingSectionId # Undefined
    /\ \E i \in 1..Len(CachedSections) : CachedSections[i].id = editingSectionId[1]
    /\ c # sectionContent
    /\ sectionContent' = c
    /\ UNCHANGED <<backendProject, sent, sentCount, shownSections, downloads, editingSectionId>>
    /\ UNCHANGED <<chatVars, cacheVars, dialogVars, cardVars, gatewayVars, uploadVars, appVars, summaryVars, listVars, filesVars>>

\* the Annuler button of the section in edit mode
onCancel ==
    /\ ProjectLoaded
    /\ editingSectionId # Undefined
    /\ \E i \in 1..Len(CachedSections) : CachedSections[i].id = editingSectionId[1]
    /\ editingSectionId' = Undefined
    /\ sectionContent' = ""
    /\ UNCHANGED <<backendProject, sent, sentCount, shownSections, downloads>>
    /\ UNCHANGED <<chatVars, cacheVars, dialogVars, cardVars, gatewayVars, uploadVars, appVars, summaryVars, listVars, filesVars>>

handleSaveSectionSendsStatusMutant(sectionId) ==
    /\ editingSectionId = Some(sectionId)
    /\ \E i \in 1..Len(CachedSections) : CachedSections[i].id = sectionId
    /\ Send(Request("updateProjectSection", sectionId,
                    [content |-> sectionContent, status |-> "final"]))
    /\ UNCHANGED <<backendProject, shownSections, downloads, editingSectionId, sectionContent>>
    /\ UNCHANGED <<chatVars, cacheVars, dialogVars, cardVars, gatewayVars, uploadVars, appVars, summaryVars, listVars, filesVars>>

\* handleSaveSection up to the await: the save button of the section in edit mode
handleSaveSection(sectionId) ==
    /\ editingSectionId = Some(sectionId)
    /\ \E i \in 1..Len(CachedSections) : CachedSections[i].id = sectionId
    /\ Send(Request("updateProjectSection", sectionId, [content |-> sectionContent]))
    /\ UNCHANGED <<backendProject, shownSections, downloads, editingSectionId, sectionContent>>
    /\ UNCHANGED <<chatVars, cacheVars, dialogVars, cardVars, gatewayVars, uploadVars, appVars, summaryVars, listVars, filesVars>>

\* the delete button of a listed section that is not in edit mode
handleDeleteSection(sectionId) ==
    /\ editingSectionId # Some(sectionId)
    /\ ProjectLoaded
    /\ \E i \in 1..Len(CachedSections) : CachedSections[i].id = sectionId
    /\ Send(Request("deleteProjectSection", sectionId, <<>>))
    /\ UNCHANGED <<backendProject, shownSections, downloads, editingSectionId, sectionContent>>
    /\ UNCHANGED <<chatVars, cacheVars, dialogVars, cardVars, gatewayVars, uploadVars, appVars, summaryVars, listVars, filesVars>>

ExportFormats == {"docx", "md"}

\* handleExport: exportProject(projectId, format) with its defaults
handleExport(format) ==
    /\ \A r \in sent : r.kind # "exportProject"
    /\ Send(Request("exportProject", "-",
                    [format |-> format, include_bibliography |-> TRUE,
                     citation_style |-> "apa"]))
    /\ UNCHANGED <<backendProject, shownSections, downloads, editingSectionId, sectionContent>>
    /\ UNCHANGED <<chatVars, cacheVars, dialogVars, cardVars, gatewayVars, uploadVars, appVars, summaryVars, listVars, filesVars>>

\* the sequences that hold each element of a set once
Orderings(S) ==
    {s \in [1..Cardinality(S) -> S] : \A i, j \in 1..Cardinality(S) : s[i] = s[j] => i = j}

\* ProjectDetailPage lists the sections: sort orders project.sections itself
RenderProject ==
    /\ ProjectLoaded
    /\ cache' = [cache EXCEPT ![RenderedProject].data = Some(SortSections(CachedSections))]
    /\ shownSections' = Some(SortSections(CachedSections))
    /\ UNCHANGED <<view, superseded, pendingMut, lastMutation, mutCount, navCount>>
    /\ UNCHANGED <<backendProject, sent, sentCount, downloads, editingSectionId, sectionContent>>
    /\ UNCHANGED <<chatVars, dialogVars, cardVars, gatewayVars, uploadVars, appVars, summaryVars, listVars, filesVars>>

\* GET projects/P1 answers with the project the backend holds, its sections in
\* whatever order it lists them
getProject ==
    \E s \in Orderings(backendProject.sections) : ProjectFetchSuccess(s)

\* the project after the backend has applied a request; o is the section_order it
\* gives a section it creates
ApplyRequest(r, o) ==
    CASE r.kind = "updateProject" ->
            [backendProject EXCEPT !.status =
                IF "status" \in DOMAIN r.data THEN r.data.status ELSE @]
      [] r.kind = "addProjectSource" ->
            [backendProject EXCEPT !.sources = @ \cup {r.data.document_id}]
      [] r.kind = "removeProjectSource" ->
            [backendProject EXCEPT !.sources = @ \ {r.target}]
      [] r.kind = "createProjectSection" ->
            IF \E x \in SectionIds : \A t \in backendProject.sections : t.id # x
            THEN [backendProject EXCEPT !.sections = @ \cup
                    {[id |-> CHOOSE x \in SectionIds :
                                \A t \in backendProject.sections : t.id # x,
                      section_order |-> o, status |-> "draft", content |-> ""]}]
            ELSE backendProject
      [] r.kind = "updateProjectSection" ->
            [backendProject EXCEPT !.sections =
                {IF t.id = r.target
                 THEN [t EXCEPT !.content = IF "content" \in DOMAIN r.data
                                            THEN r.data.content ELSE @,
                                !.status = IF "status" \in DOMAIN r.data
                                           THEN r.data.status ELSE @]
                 ELSE t : t \in @}]
      [] r.kind = "deleteProjectSection" ->
            [backendProject EXCEPT !.sections = {t \in @ : t.id # r.target}]
      [] OTHER -> backendProject

\* the file an export answers with: the sections in section_order
ExportedFile(r) ==
    [name |-> <<"projet_", "P1", ".", r.data.format>>,
     sections |-> SortSections(CHOOSE s \in Orderings(backendProject.sections) : TRUE)]

\* the backend applies a request and answers: the hook's onSuccess invalidates,
\* then the handler goes on after its await (handleSaveSection leaves edit mode,
\* the export hands the file to the browser)
RequestSuccess(r, o) ==
    /\ r \in sent
    /\ sent' = sent \ {r}
    /\ backendProject' = ApplyRequest(r, o)
    /\ superseded' = Apply(Mutation(r.kind, "P1"))
    /\ cache' = InvalidateQueries(cache, InvalidationTargets(Mutation(r.kind, "P1")))
    /\ lastMutation' = Settled(Mutation(r.kind, "P1"), "success")
    /\ downloads' = IF r.kind = "exportProject"
                    THEN Append(downloads, ExportedFile(r)) ELSE downloads
    /\ editingSectionId' = IF r.kind = "updateProjectSection"
                           THEN Undefined ELSE editingSectionId
    /\ sectionContent' = IF r.kind = "updateProjectSection" THEN "" ELSE sectionContent
    /\ UNCHANGED <<view, pendingMut, mutCount, navCount, sentCount, shownSections>>
    /\ UNCHANGED <<chatVars, dialogVars, cardVars, gatewayVars, uploadVars, appVars, summaryVars, listVars, filesVars>>

\* the request is rejected: mutateAsync throws and the handler stops there
RequestError(r) ==
    /\ r \in sent
    /\ sent' = sent \ {r}
    /\ lastMutation' = Settled(Mutation(r.kind, "P1"), "error")
    /\ UNCHANGED <<view, cache, superseded, pendingMut, mutCount, navCount>>
    /\ UNCHANGED <<backendProject, sentCount, shownSections, downloads,
                   editingSectionId, sectionContent>>
    /\ UNCHANGED <<chatVars, dialogVars, cardVars, gatewayVars, uploadVars, appVars, summaryVars, listVars, filesVars>>

\* a project just created, or one in progress with a source and two sections
InitialProjects ==
    {[status |-> "draft", sources |-> {}, sections |-> {}],
     [status |-> "in_progress", sources |-> {"d1"},
      sections |-> {[id |-> "s1", section_order |-> 2, status |-> "review",
                     content |-> "text"],
                    [id |-> "s2", section_order |-> 1, status |-> "draft",
                     content |-> ""]}]}

\* the page of project P1 mounts
InitProject ==
    /\ InitStoreVars /\ InitPageVars /\ InitDialogVars /\ InitCardVars
    /\ InitGatewayVars /\ InitUploadVars /\ InitFilesVars /\ InitListVars /\ InitSummaryVars /\ InitAppVars
    /\ view = <<"project", "P1">>
    /\ cache = [k \in {HealthKey, RenderedProject} |-> NewEntry]
    /\ superseded = {}
    /\ pendingMut = {}
    /\ lastMutation = [kind |-> "-", project |-> "-", status |-> "idle"]
    /\ mutCount = 0
    /\ navCount = 0
    /\ backendProject \in InitialProjects
    /\ sent = {}
    /\ sentCount = 0
    /\ shownSections = Undefined
    /\ downloads = <<>>
    /\ editingSectionId = Undefined
    /\ sectionContent = ""

SentRequests ==
    {Request("updateProject", "-", [status |-> x]) : x \in ProjectStatuses}
        \cup {Request("updateProject", "-", [title |-> "T"])}
        \cup {Request("removeProjectSource", d, <<>>) : d \in Docs}
        \cup {Request("addProjectSource", "-",
                      [document_id |-> d, notes |-> Undefined, relevance |-> "medium"]) :
                d \in Docs}
        \cup {Request("createProjectSection", "-",
                      [section_type |-> "introduction", title |-> OrNull(t)]) :
                t \in {"", "T"}}
        \cup {Request("updateProjectSection", x, d) :
                x \in SectionIds,
                d \in [content : Contents] \cup [content : Contents, status : {"final"}]}
        \cup {Request("deleteProjectSection", x, <<>>) : x \in SectionIds}
        \cup {Request("exportProject", "-",
                      [format |-> f, include_bibliography |-> TRUE,
                       citation_style |-> "apa"]) : f \in ExportFormats}

NextProject ==
    \/ getProject
    \/ RenderProject
    \/ \E x \in ProjectStatuses : handleStatusChange(x)
    \/ handleSaveTitle("T")
    \/ \E d \in Docs : AddSource(d)
    \/ \E d \in Docs : handleRemoveSource(d)
    \/ \E t \in {"", "T"} : handleCreate("introduction", t)
    \/ \E x \in ProjectSections : onEdit(x)
    \/ \E c \in Contents : onContentChange(c)
    \/ onCancel
    \/ \E x \in SectionIds : handleSaveSection(x)
    \/ \E x \in SectionIds : handleDeleteSection(x)
    \/ \E f \in ExportFormats : handleExport(f)
    \/ \E r \in SentRequests, o \in 1..MaxSectionOrder : RequestSuccess(r, o)
    \/ \E r \in SentRequests : RequestError(r)

ProjectSpec == InitProject /\ [][NextProject]_vars

----------------------------------------------------------------------------
(* Export and the project's state *)

\* a step of an export: the button, its answer, its failure
ExportStep ==
    \/ \E f \in ExportFormats : handleExport(f)
    \/ \E r \in SentRequests, o \in 1..MaxSectionOrder :
            r.kind = "exportProject" /\ (RequestSuccess(r, o) \/ RequestError(r))

\* C21: an export, successful or failed, sends nothing but the export request,
\* leaves every cache entry as it was and leaves the project's status, sources
\* and sections as they were
C21_ExportLeavesProject ==
    [][ExportStep =>
        /\ cache' = cache
        /\ backendProject' = backendProject
        /\ \A r \in sent' \ sent : r.kind = "exportProject"]_vars

\* an export has answered for a project that is loaded and has sections
C21_Witness ==
    /\ Len(downloads) > 0
    /\ lastMutation = Settled(Mutation("exportProject", "P1"), "success")
    /\ Served(RenderedProject) # Undefined
    /\ ~cache[RenderedProject].isInvalidated
    /\ backendProject.sections # {}

----------------------------------------------------------------------------
(* Status fields *)

\* C22: no request but the status select's carries a status field, the project's
\* status changes only when such a request is applied and takes the status it
\* names, and no section's status changes: adding, editing or removing a source or
\* a section leaves every status as it was
C22_StatusOnlyByAction ==
    [][/\ \A r \in sent' : r.kind # "updateProject" => "status" \notin DOMAIN r.data
       /\ backendProject'.status # backendProject.status =>
            \E r \in sent \ sent' :
                /\ r.kind = "updateProject"
                /\ "status" \in DOMAIN r.data
                /\ r.data.status = backendProject'.status
       /\ \A t \in backendProject.sections, u \in backendProject'.sections :
            t.id = u.id => u.status = t.status]_vars

\* a section has been added to a draft project, which is still a draft
C22_Witness ==
    /\ lastMutation = Settled(Mutation("createProjectSection", "P1"), "success")
    /\ backendProject.sections # {}
    /\ backendProject.status = "draft"

----------------------------------------------------------------------------
(* The order of the sections put out *)

\* a list of sections in ascending section_order
Ascending(s) ==
    \A i, j \in 1..Len(s) : i < j => s[i].section_order <= s[j].section_order

\* the sections of a list
Elements(s) == {s[i] : i \in 1..Len(s)}

\* C23: whatever order the sections were fetched or are held in, the list the page
\* renders holds the fetched sections in ascending section_order, and the file
\* an export answers with holds the project's sections in ascending section_order
C23_AscendingOrder ==
    [][/\ shownSections' # shownSections =>
            /\ Ascending(shownSections'[1])
            /\ Len(shownSections'[1]) = Len(CachedSections)
            /\ Elements(shownSections'[1]) = Elements(CachedSections)
       /\ Len(downloads') > Len(downloads) =>
            /\ Ascending(downloads'[Len(downloads')].sections)
            /\ Elements(downloads'[Len(downloads')].sections) = backendProject.sections
            /\ Len(downloads'[Len(downloads')].sections) =
                    Cardinality(backendProject.sections)]_vars

\* two sections of different section_order have been rendered and exported
C23_Witness ==
    /\ shownSections # Undefined
    /\ Len(shownSections[1]) = 2
    /\ shownSections[1][1].section_order < shownSections[1][2].section_order
    /\ Len(downloads) > 0
    /\ Len(downloads[1].sections) = 2
    /\ downloads[1].sections[1].section_order < downloads[1].sections[2].section_order

----------------------------------------------------------------------------
(* A section save and the edit session *)

\* C27: when the save of a section succeeds while another section is being
\* edited, that section stays in edit mode with its buffer; when a save fails,
\* the edit mode and the buffer stay as they are
C27_SaveKeepsOtherSession ==
    [][\A r \in sent \ sent' :
            r.kind = "updateProjectSection" =>
                /\ (/\ lastMutation'.status = "success"
                    /\ editingSectionId # Undefined
                    /\ editingSectionId # Some(r.target))
                        => UNCHANGED <<editingSectionId, sectionContent>>
                /\ lastMutation'.status = "error"
                        => UNCHANGED <<editingSectionId, sectionContent>>]_vars

----------------------------------------------------------------------------
(* The application shell and the durable storage *)

ThemeKey == "darkMode"

\* App's effect on [darkMode]: localStorage.setItem('darkMode', JSON.stringify(darkMode))
SaveTheme(store, dark) == (ThemeKey :> (IF dark THEN "true" ELSE "false")) @@ store

\* the initialiser of darkMode: the saved value, else the system's preference
InitialTheme(store, prefersDark) ==
    IF ThemeKey \in DOMAIN store THEN store[ThemeKey] = "true" ELSE prefersDark

\* the header's theme button, and the effect that follows the change
toggleDarkMode ==
    /\ darkMode' = ~darkMode
    /\ storage' = SaveTheme(storage, darkMode')
    /\ UNCHANGED <<messages, filters, isProcessing, nextId>>
    /\ UNCHANGED <<pageVars, cacheVars, dialogVars, cardVars, gatewayVars, uploadVars, projectVars, summaryVars, listVars, filesVars>>

\* the page is loaded again: the store rehydrates, App mounts and its effect runs
AppReload ==
    /\ epoch <= MaxRestarts
    /\ \E prefersDark \in BOOLEAN :
        LET h == Hydrate(storage)
            dark == InitialTheme(storage, prefersDark)
        IN  /\ messages' = h.messages
            /\ filters' = h.filters
            /\ isProcessing' = FALSE
            /\ darkMode' = dark
            /\ storage' = SaveTheme(SetItem(storage, [messages |-> h.messages,
                                                      filters |-> h.filters]), dark)
    /\ inflight' = {}
    /\ mounted' = TRUE
    /\ epoch' = epoch + 1
    /\ ragStatus' = "idle"
    /\ UNCHANGED nextId
    /\ UNCHANGED <<cacheVars, dialogVars, cardVars, gatewayVars, uploadVars, projectVars, summaryVars, listVars, filesVars>>

\* the application has just been opened in a browser that had nothing stored
InitApp ==
    /\ InitPageVars /\ InitCacheVars /\ InitDialogVars /\ InitCardVars
    /\ InitGatewayVars /\ InitUploadVars /\ InitFilesVars /\ InitListVars /\ InitSummaryVars /\ InitProjectVars
    /\ messages = <<>>
    /\ filters = EmptyFilters
    /\ isProcessing = FALSE
    /\ nextId = 1
    /\ darkMode \in BOOLEAN
    /\ storage = SaveTheme(SetItem([k \in {} |-> 0],
                                   [messages |-> <<>>, filters |-> EmptyFilters]), darkMode)

NextApp ==
    \/ StoreSetProcessing
    \/ StoreSetFilters
    \/ StoreClearFilters
    \/ toggleDarkMode
    \/ ClearSiteData
    \/ AppReload

AppSpec == InitApp /\ [][NextApp]_vars

\* C24: the durable storage holds no key other than the session key
C24_OnlySessionKey == DOMAIN storage \subseteq {StorageKey}

----------------------------------------------------------------------------
(* The submit guard of the chat input *)

\* the last message is a question just appended
AppendsQuestion ==
    /\ Len(messages') > Len(messages)
    /\ messages'[Len(messages')].role = "user"

\* one more submit fits in the run
RoomToSubmit == (nextId - 1) + Cardinality(inflight) + 2 <= MaxChatMsgs

\* C25: a request is dispatched and a question appended only while the page's
\* query is not pending and only with a question that is trimmed and not empty;
\* once the query is no longer pending the mounted page accepts a submit again
C25_SubmitGuard ==
    /\ [][/\ \A c \in inflight' \ inflight :
                /\ ragStatus # "pending"
                /\ c.request.question # ""
                /\ Trim(c.request.question) = c.request.question
          /\ AppendsQuestion =>
                /\ ragStatus # "pending"
                /\ inflight' # inflight
                /\ messages'[Len(messages')].content # ""]_vars
    /\ [](mounted /\ ragStatus # "pending" /\ RoomToSubmit
            => ENABLED ChatInputSubmit(" q1 "))

\* the first mounted page has taken a second question after its first query ended
C25_Witness ==
    /\ mounted
    /\ epoch = 1
    /\ ragStatus = "pending"
    /\ Cardinality(inflight) = 1
    /\ Len(messages) = 3
    /\ messages[2].role = "assistant"

----------------------------------------------------------------------------
(* The summary dialog of the documents page *)

\* generateSummary calls in one run
MaxSummaryCalls == 3

\* result.summary of POST documents/<doc>/summary
SummaryOf(doc) == <<"summary of", doc>>

\* handleSummary up to the await: the summary button of a listed document; the
\* table is reachable while the dialog is closed
handleSummary(doc) ==
    /\ summaryTarget = Undefined
    /\ summaryCount < MaxSummaryCalls
    /\ summaryTarget' = Some(doc)
    /\ summaryContent' = Undefined
    /\ summaryError' = FALSE
    /\ summaryCalls' = summaryCalls \cup {[id |-> summaryCount + 1, doc |-> doc]}
    /\ summaryCount' = summaryCount + 1
    /\ UNCHANGED <<chatVars, cacheVars, dialogVars, cardVars, gatewayVars, uploadVars, projectVars, appVars, listVars, filesVars>>

\* the dialog's onClose
closeSummaryModal ==
    /\ summaryTarget # Undefined
    /\ summaryTarget' = Undefined
    /\ summaryContent' = Undefined
    /\ summaryError' = FALSE
    /\ UNCHANGED <<summaryCalls, summaryCount>>
    /\ UNCHANGED <<chatVars, cacheVars, dialogVars, cardVars, gatewayVars, uploadVars, projectVars, appVars, listVars, filesVars>>

\* handleSummary after the await: setSummaryContent(result.summary)
SummarySuccess(call) ==
    /\ call \in summaryCalls
    /\ summaryCalls' = summaryCalls \ {call}
    /\ summaryContent' = Some(SummaryOf(call.doc))
    /\ UNCHANGED <<summaryTarget, summaryError, summaryCount>>
    /\ UNCHANGED <<chatVars, cacheVars, dialogVars, cardVars, gatewayVars, uploadVars, projectVars, appVars, listVars, filesVars>>

\* handleSummary's catch: setSummaryError(...)
SummaryFailure(call) ==
    /\ call \in summaryCalls
    /\ summaryCalls' = summaryCalls \ {call}
    /\ summaryError' = TRUE
    /\ UNCHANGED <<summaryTarget, summaryContent, summaryCount>>
    /\ UNCHANGED <<chatVars, cacheVars, dialogVars, cardVars, gatewayVars, uploadVars, projectVars, appVars, listVars, filesVars>>

SummaryCallSet == [id : 1..MaxSummaryCalls, doc : Docs]

NextSummary ==
    \/ \E d \in Docs : handleSummary(d)
    \/ closeSummaryModal
    \/ \E c \in SummaryCallSet : SummarySuccess(c)
    \/ \E c \in SummaryCallSet : SummaryFailure(c)

SummarySpec == Init /\ [][NextSummary]_vars

\* C26: whenever the dialog names a document and a summary is set, the summary
\* is that of the document named
C26_SummaryOfTarget ==
    (summaryTarget # Undefined /\ summaryContent # Undefined)
        => summaryContent = Some(SummaryOf(summaryTarget[1]))

----------------------------------------------------------------------------
(* The document list: page, filters and the result set *)

\* documents deleted in one run
MaxDeletes == 2

LIMIT == 10

\* the status buttons ('' is all) and the texts typed in the search box
StatusFilters == {"", "indexed", "pending"}
SearchTexts == {"", "x"}

\* a document of class c is in the result set of GET documents?search&status
InResult(c, status, search) ==
    /\ status = "" \/ c.status = status
    /\ search = "" \/ c.titled

RECURSIVE SumOver(_, _)
SumOver(f, S) ==
    IF S = {} THEN 0
    ELSE LET c == CHOOSE x \in S : TRUE IN f[c] + SumOver(f, S \ {c})

\* DocumentListResponse.total for the parameters
Total(docs, status, search) ==
    SumOver(docs, {c \in DocClasses : InResult(c, status, search)})

\* Math.ceil(data.total / LIMIT)
TotalPagesOf(total) == (total + LIMIT - 1) \div LIMIT

\* totalPages of the page: 0 while there is no data
totalPages == IF docsTotal = Undefined THEN 0 ELSE TotalPagesOf(docsTotal[1])

\* useDocuments' request for the current parameters answers
DocumentsFetched ==
    /\ docsTotal = Undefined
    /\ docsTotal' = Some(Total(corpus, statusFilter, docSearch))
    /\ UNCHANGED <<docPage, docSearch, statusFilter, corpus, deleteCount>>
    /\ UNCHANGED <<chatVars, cacheVars, dialogVars, cardVars, gatewayVars, uploadVars, projectVars, appVars, summaryVars, filesVars>>

\* the previous-page button: shown when totalPages > 1, disabled on page 1
PreviousPage ==
    /\ totalPages > 1
    /\ docPage # 1
    /\ docPage' = Max(1, docPage - 1)
    /\ docsTotal' = Undefined
    /\ UNCHANGED <<docSearch, statusFilter, corpus, deleteCount>>
    /\ UNCHANGED <<chatVars, cacheVars, dialogVars, cardVars, gatewayVars, uploadVars, projectVars, appVars, summaryVars, filesVars>>

\* the next-page button: shown when totalPages > 1, disabled on the last page
NextPage ==
    /\ totalPages > 1
    /\ docPage # totalPages
    /\ docPage' = Min(totalPages, docPage + 1)
    /\ docsTotal' = Undefined
    /\ UNCHANGED <<docSearch, statusFilter, corpus, deleteCount>>
    /\ UNCHANGED <<chatVars, cacheVars, dialogVars, cardVars, gatewayVars, uploadVars, projectVars, appVars, summaryVars, filesVars>>

\* a status button: setStatusFilter(status); setPage(1)
SetStatusFilter(status) ==
    /\ statusFilter' = status
    /\ docPage' = 1
    /\ docsTotal' = IF status = statusFilter /\ docPage = 1 THEN docsTotal ELSE Undefined
    /\ UNCHANGED <<docSearch, corpus, deleteCount>>
    /\ UNCHANGED <<chatVars, cacheVars, dialogVars, cardVars, gatewayVars, uploadVars, projectVars, appVars, summaryVars, filesVars>>

\* the search box's onChange: setSearch(e.target.value)
EditSearch(text) ==
    /\ text # docSearch
    /\ docSearch' = text
    /\ docsTotal' = Undefined
    /\ UNCHANGED <<docPage, statusFilter, corpus, deleteCount>>
    /\ UNCHANGED <<chatVars, cacheVars, dialogVars, cardVars, gatewayVars, uploadVars, projectVars, appVars, summaryVars, filesVars>>

\* the search form's submit: setPage(1)
handleSearch ==
    /\ docPage' = 1
    /\ docsTotal' = IF docPage = 1 THEN docsTotal ELSE Undefined
    /\ UNCHANGED <<docSearch, statusFilter, corpus, deleteCount>>
    /\ UNCHANGED <<chatVars, cacheVars, dialogVars, cardVars, gatewayVars, uploadVars, projectVars, appVars, summaryVars, filesVars>>

\* a document of the page shown is deleted (handleDelete succeeds) and the
\* invalidated documents query has answered again
DeleteAndRefetch(c) ==
    /\ deleteCount < MaxDeletes
    /\ docsTotal # Undefined
    /\ (docPage - 1) * LIMIT < docsTotal[1]
    /\ InResult(c, statusFilter, docSearch)
    /\ corpus[c] > 0
    /\ corpus' = [corpus EXCEPT ![c] = @ - 1]
    /\ docsTotal' = Some(Total(corpus', statusFilter, docSearch))
    /\ deleteCount' = deleteCount + 1
    /\ UNCHANGED <<docPage, docSearch, statusFilter>>
    /\ UNCHANGED <<chatVars, cacheVars, dialogVars, cardVars, gatewayVars, uploadVars, projectVars, appVars, summaryVars, filesVars>>

NextList ==
    \/ DocumentsFetched
    \/ PreviousPage
    \/ NextPage
    \/ \E s \in StatusFilters : SetStatusFilter(s)
    \/ \E t \in SearchTexts : EditSearch(t)
    \/ handleSearch
    \/ \E c \in DocClasses : DeleteAndRefetch(c)

ListSpec == Init /\ [][NextList]_vars

\* C29: whenever the result set for the current parameters is there, the page
\* asked for is between 1 and max(1, totalPages)
C29_PageInRange ==
    docsTotal # Undefined =>
        /\ 1 <= docPage
        /\ docPage <= Max(1, TotalPagesOf(docsTotal[1]))

----------------------------------------------------------------------------
(* One run of uploadFiles over the dialog's list *)

\* files dropped in one run of the model
MaxFiles == 3

\* the k-th file dropped
FileNo(k) == <<"file", k>>

\* onDrop of one accepted file: appended as pending
onDrop ==
    /\ uploadModalOpen
    /\ dropCount < MaxFiles
    /\ files' = Append(files, [file |-> FileNo(dropCount + 1), status |-> "pending"])
    /\ dropCount' = dropCount + 1
    /\ UNCHANGED <<run, uploaded, removed>>
    /\ UNCHANGED <<chatVars, cacheVars, dialogVars, cardVars, gatewayVars, uploadVars, projectVars, appVars, summaryVars, listVars>>

\* the remove button of a pending entry: prev.filter((_, i) => i !== index)
removeFile(index) ==
    /\ uploadModalOpen
    /\ index \in 1..Len(files)
    /\ files[index].status = "pending"
    /\ files' = [i \in 1..(Len(files) - 1) |-> IF i < index THEN files[i] ELSE files[i + 1]]
    /\ removed' = IF \E j \in 1..Len(uploaded) : uploaded[j].file = files[index].file
                  THEN removed ELSE removed \cup {files[index].file}
    /\ UNCHANGED <<run, uploaded, dropCount>>
    /\ UNCHANGED <<chatVars, cacheVars, dialogVars, cardVars, gatewayVars, uploadVars, projectVars, appVars, summaryVars, listVars>>

\* prev.map((f, idx) => idx === i ? { ...f, status } : f) on the current list
SetStatus(list, i, status) ==
    [idx \in 1..Len(list) |->
        IF idx = i THEN [list[idx] EXCEPT !.status = status] ELSE list[idx]]

\* the loop's next index at or after from whose entry in the list it was started
\* with is pending; 0 when the loop ends
NextPending(snapshot, from) ==
    IF \E i \in from..Len(snapshot) : snapshot[i].status = "pending"
    THEN CHOOSE i \in from..Len(snapshot) :
            /\ snapshot[i].status = "pending"
            /\ \A j \in from..(i - 1) : snapshot[j].status # "pending"
    ELSE 0

\* the Uploader button (disabled without a pending entry): uploadFiles up to its
\* first await
UploadRunStart ==
    /\ uploadModalOpen
    /\ run = Undefined
    /\ NextPending(files, 1) # 0
    /\ LET i == NextPending(files, 1)
       IN  /\ files' = SetStatus(files, i, "uploading")
           /\ run' = Some([snapshot |-> files, i |-> i])
           /\ uploaded' = Append(uploaded, [file |-> files[i].file, outcome |-> "pending"])
    /\ lastMutation' = Settled(Upload, "pending")
    /\ UNCHANGED <<removed, dropCount>>
    /\ UNCHANGED <<view, cache, superseded, pendingMut, mutCount, navCount>>
    /\ UNCHANGED <<chatVars, dialogVars, cardVars, gatewayVars, uploadVars, projectVars, appVars, summaryVars, listVars>>

\* the awaited upload settles: useUploadDocument's onSuccess invalidates, the
\* loop marks index i and goes on to its next await or ends
UploadRunSettles(outcome) ==
    /\ run # Undefined
    /\ LET r == run[1]
           marked == SetStatus(files, r.i, outcome)
           n == NextPending(r.snapshot, r.i + 1)
           settled == [uploaded EXCEPT ![Len(uploaded)].outcome = outcome]
       IN  IF n = 0
           THEN /\ files' = marked
                /\ run' = Undefined
                /\ uploaded' = settled
           ELSE /\ files' = SetStatus(marked, n, "uploading")
                /\ run' = Some([r EXCEPT !.i = n])
                /\ uploaded' = Append(settled, [file |-> r.snapshot[n].file,
                                                outcome |-> "pending"])
    /\ cache' = IF outcome = "success"
                THEN InvalidateQueries(cache, InvalidationTargets(Upload)) ELSE cache
    /\ superseded' = IF outcome = "success" THEN Apply(Upload) ELSE superseded
    /\ lastMutation' = Settled(Upload, outcome)
    /\ UNCHANGED <<removed, dropCount>>
    /\ UNCHANGED <<view, pendingMut, mutCount, navCount>>
    /\ UNCHANGED <<chatVars, dialogVars, cardVars, gatewayVars, uploadVars, projectVars, appVars, summaryVars, listVars>>

\* the documents page with the upload dialog open
InitFiles ==
    /\ InitStoreVars /\ InitPageVars /\ InitDialogVars /\ InitCardVars
    /\ InitGatewayVars /\ InitProjectVars /\ InitAppVars /\ InitSummaryVars
    /\ InitListVars /\ InitFilesVars
    /\ uploadModalOpen = TRUE
    /\ view = <<"documents">>
    /\ cache = [k \in {HealthKey} \cup PageKeys(<<"documents">>) |-> NewEntry]
    /\ superseded = {}
    /\ pendingMut = {}
    /\ lastMutation = [kind |-> "-", project |-> "-", status |-> "idle"]
    /\ mutCount = 0
    /\ navCount = 0

NextFiles ==
    \/ onDrop
    \/ \E i \in 1..MaxFiles : removeFile(i)
    \/ UploadRunStart
    \/ \E o \in {"success", "error"} : UploadRunSettles(o)

FilesSpec == InitFiles /\ [][NextFiles]_vars

\* C28: the status shown for an entry, success or error, is the outcome of the
\* upload of that entry's file, and no file taken off the list before its
\* upload was sent is uploaded
C28_OwnOutcome ==
    /\ \A i \in 1..Len(files) :
            files[i].status \in {"success", "error"} =>
                \E j \in 1..Len(uploaded) :
                    /\ uploaded[j].file = files[i].file
                    /\ uploaded[j].outcome = files[i].status
    /\ \A j \in 1..Len(uploaded) : uploaded[j].file \notin removed

----------------------------------------------------------------------------
(* Invalidation against what a mutation changes *)

\* C30: when a mutation succeeds, every cached entry that holds a view the
\* mutation changed bears the invalidation mark
C30_CoversChangedViews ==
    [][ \A m \in pendingMut \ pendingMut' :
            lastMutation' = Settled(m, "success") =>
                \A k \in DOMAIN cache :
                    (cache[k].data # Undefined /\ BackendView(k) \in Effects(m))
                        => cache'[k].isInvalidated
      ]_vars

====
